---- MODULE Spec2Model ----
(***************************************************************************)
(* Formatter dispatch layer of the code-formatter browser extension:       *)
(* the FormatterRegistry (formatters/registry.ts), its backends, and the   *)
(* background script's cache, validation and message handler.              *)
(*                                                                         *)
(* JavaScript strings are modelled as sequences of one-character strings,  *)
(* so that toLowerCase, trim, substring and length are computed and not    *)
(* assumed.                                                                *)
(***************************************************************************)
EXTENDS Integers, Sequences, FiniteSets, TLC

(***************************************************************************)
(* Characters and strings                                                  *)
(***************************************************************************)

\* Printable ASCII in code order; Ascii[i] has char code i + 31 (the grave
\* accent, code 96, is spelled out).
Ascii ==
  <<" ", "!", "\"", "#", "$", "%", "&", "'", "(", ")", "*", "+", ",", "-", ".", "/",
    "0", "1", "2", "3", "4", "5", "6", "7", "8", "9", ":", ";", "<", "=", ">", "?",
    "@", "A", "B", "C", "D", "E", "F", "G", "H", "I", "J", "K", "L", "M", "N", "O",
    "P", "Q", "R", "S", "T", "U", "V", "W", "X", "Y", "Z", "[", "\\", "]", "^", "_",
    "GRAVE", "a", "b", "c", "d", "e", "f", "g", "h", "i", "j", "k", "l", "m", "n", "o",
    "p", "q", "r", "s", "t", "u", "v", "w", "x", "y", "z", "{", "|", "}", "~">>

\* The characters of the model's strings.
Chars == {Ascii[i] : i \in 1..Len(Ascii)} \cup {"\n", "\t", "\r"}

\* String.prototype.charCodeAt for one character, as a table.
CharCodeTable ==
  [c \in Chars |->
     IF c = "\n" THEN 10
     ELSE IF c = "\t" THEN 9
     ELSE IF c = "\r" THEN 13
     ELSE 31 + (CHOOSE i \in 1..Len(Ascii) : Ascii[i] = c)]

CharCode(c) == CharCodeTable[c]

\* Lower-casing of one character: A..Z (65..90) move to a..z (97..122).
LowerTable ==
  [c \in Chars |->
     LET n == CharCodeTable[c]
     IN  IF n >= 65 /\ n <= 90 THEN Ascii[n + 32 - 31] ELSE c]

LowerChar(c) == LowerTable[c]

\* Upper-casing of one character (used to build differently-cased inputs).
UpperTable ==
  [c \in Chars |->
     LET n == CharCodeTable[c]
     IN  IF n >= 97 /\ n <= 122 THEN Ascii[n - 32 - 31] ELSE c]

UpperChar(c) == UpperTable[c]

\* String.prototype.toLowerCase
ToLowerCase(s) == [i \in 1..Len(s) |-> LowerChar(s[i])]

\* String.prototype.toUpperCase
ToUpperCase(s) == [i \in 1..Len(s) |-> UpperChar(s[i])]

\* First letter upper-cased, the rest unchanged ("Js", "Python").
Capitalize(s) == [i \in 1..Len(s) |-> IF i = 1 THEN UpperChar(s[i]) ELSE s[i]]

S_javascript == <<"j", "a", "v", "a", "s", "c", "r", "i", "p", "t">>
S_typescript == <<"t", "y", "p", "e", "s", "c", "r", "i", "p", "t">>
S_json == <<"j", "s", "o", "n">>
S_css == <<"c", "s", "s">>
S_scss == <<"s", "c", "s", "s">>
S_less == <<"l", "e", "s", "s">>
S_html == <<"h", "t", "m", "l">>
S_markdown == <<"m", "a", "r", "k", "d", "o", "w", "n">>
S_xml == <<"x", "m", "l">>
S_python == <<"p", "y", "t", "h", "o", "n">>
S_go == <<"g", "o">>
S_sql == <<"s", "q", "l">>
S_yaml == <<"y", "a", "m", "l">>
S_toml == <<"t", "o", "m", "l">>
S_rust == <<"r", "u", "s", "t">>
S_ruby == <<"r", "u", "b", "y">>
S_lua == <<"l", "u", "a">>
S_zig == <<"z", "i", "g">>
S_dart == <<"d", "a", "r", "t">>
S_js == <<"j", "s">>
S_ts == <<"t", "s">>
S_py == <<"p", "y">>
S_rs == <<"r", "s">>
S_golang == <<"g", "o", "l", "a", "n", "g">>
S_yml == <<"y", "m", "l">>
S_cobol == <<"c", "o", "b", "o", "l">>

\* The elements of a sequence.
Range(s) == {s[i] : i \in 1..Len(s)}

\* The JavaScript value null, as a formatter lookup result.
Null == [id |-> "null", languages |-> <<>>]

(***************************************************************************)
(* formatters/types.ts                                                     *)
(***************************************************************************)

\* The alias table inside normalizeLanguage.
aliases ==
  (S_js :> S_javascript) @@ (S_ts :> S_typescript) @@ (S_py :> S_python) @@
  (S_rs :> S_rust) @@ (S_golang :> S_go) @@ (S_yml :> S_yaml)

\* A plausible slip: the alias table is consulted with the raw language,
\* lower-casing only when no alias matches.
normalizeLanguageRawAlias(language) ==
  IF language \in DOMAIN aliases THEN aliases[language] ELSE ToLowerCase(language)

\* aliases[language.toLowerCase()] || language.toLowerCase()
normalizeLanguage(language) ==
  LET lower == ToLowerCase(language)
  IN  IF lower \in DOMAIN aliases THEN aliases[lower] ELSE lower

(***************************************************************************)
(* Backend metadata (id and declared languages)                            *)
(***************************************************************************)

PrettierFormatter ==
  [id |-> "prettier",
   languages |-> <<S_javascript, S_typescript, S_json, S_css, S_scss, S_less,
                   S_html, S_markdown>>]

JsBeautifyFormatter ==
  [id |-> "js-beautify",
   languages |-> <<S_javascript, S_typescript, S_json, S_css, S_scss, S_html,
                   S_xml>>]

RuffFormatter == [id |-> "ruff", languages |-> <<S_python>>]

GofmtFormatter == [id |-> "gofmt", languages |-> <<S_go>>]

SqlFormatter == [id |-> "sql-formatter", languages |-> <<S_sql>>]

YamlFormatter == [id |-> "yaml-formatter", languages |-> <<S_yaml>>]

TomlFormatter == [id |-> "toml-formatter", languages |-> <<S_toml>>]

FallbackFormatter ==
  [id |-> "fallback", languages |-> <<S_rust, S_ruby, S_lua, S_zig, S_dart>>]

(***************************************************************************)
(* formatters/registry.ts: FormatterRegistry                               *)
(***************************************************************************)

VARIABLES
  \* FormatterRegistry (formatters/registry.ts)
  formatters,    \* Map<string, IFormatter>: backend id -> backend
  languageMap,   \* Map<string, string>: normalized language -> backend id
  regLog,        \* history: the backends passed to register, in call order
  lastLookup,    \* the last isSupported/getFormatter query and its answers
  \* background script
  bgVersion,     \* which of the two background scripts is running (1 or 2)
  formatCache,   \* Map<string, string>, as its entries in insertion order
  rateLimitMap,  \* Map<number, RateLimitEntry>: tab id -> count and reset time
  now,           \* Date.now()
  calls,         \* the formatCode calls suspended at an await, per slot
  handled,       \* the message whose handling finished last, with its responses
  lastDone,      \* the formatCode call that returned last
  windows,       \* history: per caller, the window its format requests fall in
  \* cache keys of two requests side by side
  keyRequests,
  keyResults,
  \* registry.format on two spellings of a language side by side
  fmtRequest,
  fmtEnv,
  fmtResults,
  \* convertSettings of both background scripts on one request
  setRequest,
  setResults,
  \* PrettierFormatter (formatters/prettier-formatter.ts)
  pfVersion,            \* which of the two files is in the build (1 or 2)
  prettier,             \* the module variable prettier: "null" or "loaded"
  prettierLoadPromise,  \* "null", "pending" or "settled" (second file)
  pluginCache,          \* the plugin names loaded (pluginCache; plugin variables)
  pfCalls,              \* the format calls suspended at an await, per caller
  loaderCalls,          \* history: how often each import(...) was invoked
  pfLast,               \* history: the last PrettierFormatter.format call that returned
  \* wasm-loader.ts
  wasmEnv,              \* the browser: WebAssembly supported, initAsync succeeds
  wasmCache,            \* the cache keys of wasmCache
  wasmCalls,            \* the format calls of WASM backends, per caller
  initAsyncCalls,       \* history: how often initAsync was called, per cache key
  initResolved,         \* history: the cache keys for which an initAsync resolved
  \* formatters/wasm-formatters.ts
  wfCalls,              \* the format calls of the five WASM backends, per caller
  \* one format call of another backend
  backendRequest,       \* the backend, its arguments and what the libraries do
  backendOutcome,       \* how the promise of format settled
  \* FormatterRegistry.format
  regCall,              \* the last call: arguments, backend calls made, result
  \* content.ts: format-on-type
  formatSequence,       \* let formatSequence
  editorOpen,           \* codeMirrorEditor is not null
  editorDoc,            \* codeMirrorEditor.state.doc.toString()
  debounceTimer,        \* the timeout of debounce is set
  pendingFormats,       \* the debouncedFormat calls awaiting formatCode
  currentEditorCode,    \* the text the content script takes the editor to hold
  replaceFormats,       \* the format calls of the shortcut and of file loading that await
  \* shared/utils.ts: one LRUMap
  lruMaxSize,           \* this.maxSize
  lruCache,             \* this.cache, as its entries in insertion order
  lruLast,              \* the last method call and what it returned
  lruUses,              \* history: the keys set or read by get, least recent first
  \* content.ts: formatCode
  contentCache,         \* contentCache (an LRUMap), as its entries in order
  fcCalls,              \* the formatCode calls, per caller
  \* language detection of one content by both detectLanguage functions
  detectInput,          \* what the content and the URL look like
  detectResults,        \* what content.ts and content/detection.ts returned
  codePage,             \* a page and what appearsToBeCodePage returned for it
  isProcessing,         \* the flag of the format-on-paste listener
  pasteAwaiting,        \* the paste event whose handler awaits formatCode, or 0
  pasteEvents,          \* the paste events dispatched and what followed each
  isInitialized,        \* the flag of initializeExtension (first background script)
  messageListeners,     \* the listeners added to chrome.runtime.onMessage
  contextMenuSetups,    \* the calls of setupContextMenu
  fired,                \* the start-up triggers that ran in this process
  defaultsStored,       \* onInstalled wrote the default options
  changelog,            \* handleInstallOrUpdate: "none", "reading", "shown", "seen", "failed"
  dispatched            \* history: the messages dispatched and the listeners that ran

regVars == <<formatters, languageMap, regLog, lastLookup>>

bgVars == <<bgVersion, formatCache, rateLimitMap, now, calls, handled, lastDone, windows>>

keyVars == <<keyRequests, keyResults>>

fmtVars == <<fmtRequest, fmtEnv, fmtResults>>

setVars == <<setRequest, setResults>>

\* The variables of the machines beside the registry and the background
\* script's listener.
prettierVars ==
  <<pfVersion, prettier, prettierLoadPromise, pluginCache, pfCalls, loaderCalls,
    pfLast>>

wasmVars == <<wasmEnv, wasmCache, wasmCalls, initAsyncCalls, initResolved>>

\* The variables of the units that are checked on their own.
callVars == <<backendRequest, backendOutcome>>

replaceVars == <<currentEditorCode, replaceFormats>>

typingVars ==
  <<formatSequence, editorOpen, editorDoc, debounceTimer, pendingFormats, replaceVars>>

lruVars == <<lruMaxSize, lruCache, lruLast, lruUses>>

contentVars == <<contentCache, fcCalls>>

detectVars == <<detectInput, detectResults, codePage>>

pasteVars == <<isProcessing, pasteAwaiting, pasteEvents>>

startVars ==
  <<isInitialized, messageListeners, contextMenuSetups, fired, defaultsStored, changelog,
    dispatched>>

unitVars ==
  <<wfCalls, callVars, regCall, typingVars, lruVars, contentVars, detectVars, pasteVars,
    startVars>>

\* For each unit, the variables of the other units.
wfRest ==
  <<callVars, regCall, typingVars, lruVars, contentVars, detectVars, pasteVars, startVars>>

callRest ==
  <<wfCalls, regCall, typingVars, lruVars, contentVars, detectVars, pasteVars, startVars>>

regCallRest ==
  <<wfCalls, callVars, typingVars, lruVars, contentVars, detectVars, pasteVars, startVars>>

typingRest ==
  <<wfCalls, callVars, regCall, lruVars, contentVars, detectVars, pasteVars, startVars>>

lruRest ==
  <<wfCalls, callVars, regCall, typingVars, contentVars, detectVars, pasteVars, startVars>>

contentRest ==
  <<wfCalls, callVars, regCall, typingVars, lruVars, detectVars, pasteVars, startVars>>

pasteRest ==
  <<wfCalls, callVars, regCall, typingVars, lruVars, contentVars, detectVars, startVars>>

startRest ==
  <<wfCalls, callVars, regCall, typingVars, lruVars, contentVars, detectVars, pasteVars>>

extVars == <<setVars, prettierVars, wasmVars, unitVars>>

\* Everything outside the WASM loader and the units.
coreVars == <<regVars, bgVars, keyVars, fmtVars, setVars, prettierVars>>

vars == <<regVars, bgVars, keyVars, fmtVars, extVars>>

\* The canonical languages a backend declares.
DeclaredLanguages(formatter) ==
  {normalizeLanguage(lang) : lang \in Range(formatter.languages)}

\* register(formatter), as a function of the two maps.
RegisterInto(reg, formatter) ==
  LET declared == DeclaredLanguages(formatter)
  IN  [formatters |->
         [id \in DOMAIN reg.formatters \cup {formatter.id} |->
            IF id = formatter.id THEN formatter ELSE reg.formatters[id]],
       languageMap |->
         [l \in DOMAIN reg.languageMap \cup declared |->
            IF l \in declared THEN formatter.id ELSE reg.languageMap[l]]]

\* registerDefaultFormatters(): the backends in the order they are registered.
DefaultFormatters ==
  <<PrettierFormatter, JsBeautifyFormatter, RuffFormatter, GofmtFormatter,
    SqlFormatter, YamlFormatter, TomlFormatter, FallbackFormatter>>

EmptyRegistry == [formatters |-> <<>>, languageMap |-> <<>>]

RECURSIVE RegisterAll(_, _)
RegisterAll(reg, fs) ==
  IF fs = <<>> THEN reg ELSE RegisterAll(RegisterInto(reg, Head(fs)), Tail(fs))

\* new FormatterRegistry(): the constructor registers the default backends.
NewRegistry == RegisterAll(EmptyRegistry, DefaultFormatters)

\* getFormatter(language) on given maps.
GetFormatterIn(fmts, lmap, language) ==
  LET normalized == normalizeLanguage(language)
  IN  IF normalized \in DOMAIN lmap /\ lmap[normalized] # ""
      THEN IF lmap[normalized] \in DOMAIN fmts THEN fmts[lmap[normalized]] ELSE Null
      ELSE Null

\* isSupported(language) on a given language map.
IsSupportedIn(lmap, language) == normalizeLanguage(language) \in DOMAIN lmap

getFormatter(language) == GetFormatterIn(formatters, languageMap, language)

isSupported(language) == IsSupportedIn(languageMap, language)

\* getSupportedLanguages(): the keys of the language map.
getSupportedLanguages == DOMAIN languageMap

(***************************************************************************)
(* Backends: format(code, language, settings)                              *)
(*                                                                         *)
(* The pretty-printers themselves (js-beautify, Prettier, the WASM         *)
(* modules) are outside the repository.  What they do with one request is  *)
(* given by an environment: whether the library call returns or throws,    *)
(* whether WebAssembly is available, whether the module loads.  A library  *)
(* that returns yields LibraryText(code).                                  *)
(***************************************************************************)

NoError == [kind |-> "none", detail |-> <<>>]

Error(kind, detail) == [kind |-> kind, detail |-> detail]

Success(text) == [success |-> TRUE, code |-> text, error |-> NoError]

Failure(code, kind, detail) ==
  [success |-> FALSE, code |-> code, error |-> Error(kind, detail)]

Environments ==
  [libOk : BOOLEAN, wasmSupported : BOOLEAN, wasmLoadOk : BOOLEAN, prettierVersion : {1, 2}]

\* The text an external pretty-printer returns for a code it accepts.
LibraryText(code) == code \o <<"\n">>

Whitespace == {" ", "\n", "\t", "\r"}

\* String.prototype.trim
RECURSIVE TrimLeft(_)
TrimLeft(str) ==
  IF str # <<>> /\ Head(str) \in Whitespace THEN TrimLeft(Tail(str)) ELSE str

RECURSIVE TrimRight(_)
TrimRight(str) ==
  IF str # <<>> /\ str[Len(str)] \in Whitespace
  THEN TrimRight(SubSeq(str, 1, Len(str) - 1)) ELSE str

Trim(str) == TrimRight(TrimLeft(str))

JsBeautifyLanguages == {S_javascript, S_typescript, S_json, S_css, S_scss, S_html, S_xml}

\* JsBeautifyFormatter.format: the switch is on language.toLowerCase().
JsBeautifyFormat(code, language, env) ==
  IF ToLowerCase(language) \in JsBeautifyLanguages
  THEN IF env.libOk THEN Success(LibraryText(code))
       ELSE Failure(code, "js-beautify threw", <<>>)
  ELSE Failure(code, "not supported by js-beautify", language)

PrettierPluginLanguages ==
  {S_javascript, S_typescript, S_json, S_css, S_scss, S_less, S_html, S_markdown}

\* PrettierFormatter.format.  The first version of the file always calls
\* prettier.format (without a plugin the call throws); the second returns
\* its own failure when loadPluginsForLanguage finds no plugin.
PrettierFormat(code, language, env) ==
  IF ToLowerCase(language) \in PrettierPluginLanguages
  THEN IF env.libOk THEN Success(LibraryText(code))
       ELSE Failure(code, "prettier threw", <<>>)
  ELSE IF env.prettierVersion = 1 THEN Failure(code, "prettier threw", <<>>)
       ELSE Failure(code, "No plugins for language", language)

\* RuffFormatter, GofmtFormatter, SqlFormatter, YamlFormatter and
\* TomlFormatter.format: the language argument is not read.
WasmFormat(code, env) ==
  IF ~env.wasmSupported THEN Failure(code, "WebAssembly is not supported", <<>>)
  ELSE IF ~env.wasmLoadOk THEN Failure(code, "WASM formatter failed to load", <<>>)
  ELSE IF ~env.libOk THEN Failure(code, "WASM format threw", <<>>)
  ELSE Success(LibraryText(code))

\* FallbackFormatter.format on a plain line: every branch (formatRust,
\* formatRuby, formatLua, formatZig, formatDart, formatGeneric) splits the
\* code into the one line, formatLinesWithIndentation trims it at indent
\* level 0, and the joined text is trimmed.  The result is success.  A
\* plain line has no brackets, semicolons, line breaks or keywords; the
\* codes that reach this backend here are plain lines.
FallbackFormat(code, language) == Success(Trim(code))

WasmIds == {"ruff", "gofmt", "sql-formatter", "yaml-formatter", "toml-formatter"}

\* formatter.format(code, language, settings) for a default backend.
BackendFormat(formatter, code, language, env) ==
  IF formatter.id = "js-beautify" THEN JsBeautifyFormat(code, language, env)
  ELSE IF formatter.id = "prettier" THEN PrettierFormat(code, language, env)
  ELSE IF formatter.id \in WasmIds THEN WasmFormat(code, env)
  ELSE FallbackFormat(code, language)

\* FormatterRegistry.format(code, language, settings)
RegistryFormat(code, language, env) ==
  LET formatter == getFormatter(language)
  IN  IF formatter = Null
      THEN Failure(code, "No formatter available for language", language)
      ELSE BackendFormat(formatter, code, language, env)

(***************************************************************************)
(* shared/constants.ts and background.ts: settings                         *)
(*                                                                         *)
(* An optional value is <<>> (undefined) or <<v>>.  A user indentSize is a *)
(* number or a string, so it carries its type.                             *)
(***************************************************************************)

S_java == <<"j", "a", "v", "a">>
S_es5 == <<"e", "s", "5">>
S_true == <<"t", "r", "u", "e">>
S_false == <<"f", "a", "l", "s", "e">>

S_tab == <<"t", "a", "b">>

S_none == <<"n", "o", "n", "e">>

None == <<>>

Some(v) == <<v>>

\* a ?? b on optional values
Coalesce(a, b) == IF a # None THEN a ELSE b

NumberValue(n) == [type |-> "number", num |-> n, str |-> <<>>]

StringValue(str) == [type |-> "string", num |-> 0, str |-> str]

\* message.settings absent (or an object with none of the fields).
NoSettings ==
  [indentSize |-> None, lineWrap |-> None, useTabs |-> None, singleQuote |-> None,
   semi |-> None, trailingComma |-> None]

LanguageDefault(indent, tabs, wrap, single, semicolon) ==
  [indentSize |-> Some(indent), useTabs |-> Some(tabs), lineWrap |-> wrap,
   singleQuote |-> Some(single), semi |-> Some(semicolon)]

\* No entry in LANGUAGE_DEFAULTS: langDefaults is undefined.
NoDefaults ==
  [indentSize |-> None, useTabs |-> None, lineWrap |-> None, singleQuote |-> None,
   semi |-> None]

\* LANGUAGE_DEFAULTS of the first constants file (no lineWrap).
LANGUAGE_DEFAULTS_1 ==
  (S_javascript :> LanguageDefault(2, FALSE, None, TRUE, TRUE)) @@
  (S_typescript :> LanguageDefault(2, FALSE, None, TRUE, TRUE)) @@
  (S_python :> LanguageDefault(4, FALSE, None, TRUE, TRUE)) @@
  (S_go :> LanguageDefault(4, TRUE, None, TRUE, TRUE)) @@
  (S_java :> LanguageDefault(4, FALSE, None, FALSE, TRUE)) @@
  (S_css :> LanguageDefault(2, FALSE, None, FALSE, TRUE)) @@
  (S_html :> LanguageDefault(2, FALSE, None, FALSE, TRUE)) @@
  (S_json :> LanguageDefault(2, FALSE, None, FALSE, TRUE)) @@
  (S_rust :> LanguageDefault(4, FALSE, None, TRUE, TRUE)) @@
  (S_sql :> LanguageDefault(2, FALSE, None, FALSE, TRUE)) @@
  (S_yaml :> LanguageDefault(2, FALSE, None, FALSE, TRUE)) @@
  (S_toml :> LanguageDefault(2, FALSE, None, FALSE, TRUE)) @@
  (S_markdown :> LanguageDefault(2, FALSE, None, FALSE, TRUE))

\* LANGUAGE_DEFAULTS of the second constants file (with lineWrap).
LANGUAGE_DEFAULTS_2 ==
  (S_javascript :> LanguageDefault(2, FALSE, Some(80), TRUE, TRUE)) @@
  (S_typescript :> LanguageDefault(2, FALSE, Some(80), TRUE, TRUE)) @@
  (S_python :> LanguageDefault(4, FALSE, Some(88), TRUE, TRUE)) @@
  (S_go :> LanguageDefault(4, TRUE, Some(0), TRUE, TRUE)) @@
  (S_java :> LanguageDefault(4, FALSE, Some(100), FALSE, TRUE)) @@
  (S_css :> LanguageDefault(2, FALSE, Some(80), FALSE, TRUE)) @@
  (S_html :> LanguageDefault(2, FALSE, Some(80), FALSE, TRUE)) @@
  (S_json :> LanguageDefault(2, FALSE, Some(80), FALSE, TRUE)) @@
  (S_rust :> LanguageDefault(4, FALSE, Some(100), TRUE, TRUE)) @@
  (S_sql :> LanguageDefault(2, FALSE, Some(80), FALSE, TRUE)) @@
  (S_yaml :> LanguageDefault(2, FALSE, Some(80), FALSE, TRUE)) @@
  (S_toml :> LanguageDefault(2, FALSE, Some(80), FALSE, TRUE)) @@
  (S_markdown :> LanguageDefault(2, FALSE, Some(80), FALSE, TRUE))

Digits == <<"0", "1", "2", "3", "4", "5", "6", "7", "8", "9">>

IsDigit(c) == \E i \in 1..10 : Digits[i] = c

DigitValue(c) == (CHOOSE i \in 1..10 : Digits[i] = c) - 1

\* parseInt(str, 10) on a string without sign or leading blanks: the value
\* of the leading run of digits; <<>> (NaN) when the string starts with none.
RECURSIVE ParseDigits(_, _, _)
ParseDigits(str, i, acc) ==
  IF i > Len(str) \/ ~IsDigit(str[i]) THEN acc
  ELSE ParseDigits(str, i + 1, acc * 10 + DigitValue(str[i]))

parseInt(str) ==
  IF str = <<>> \/ ~IsDigit(str[1]) THEN None ELSE Some(ParseDigits(str, 1, 0))

\* The indentSize rule shared by both convertSettings:
\* typeof indentSize === "string" ? parseInt(indentSize, 10) || 2
\*                                : indentSize ?? langDefaults?.indentSize ?? 2
ResolveIndentSize(settings, langDefaults) ==
  IF settings.indentSize # None /\ settings.indentSize[1].type = "string"
  THEN LET parsed == parseInt(settings.indentSize[1].str)
       IN  IF parsed = None \/ parsed[1] = 0 THEN 2 ELSE parsed[1]
  ELSE IF settings.indentSize # None THEN settings.indentSize[1].num
  ELSE IF langDefaults.indentSize # None THEN langDefaults.indentSize[1]
  ELSE 2

\* convertSettings of the first background script.
convertSettings1(settings, language) ==
  LET langDefaults ==
        IF language \in DOMAIN LANGUAGE_DEFAULTS_1
        THEN LANGUAGE_DEFAULTS_1[language] ELSE NoDefaults
  IN  [indentSize |-> ResolveIndentSize(settings, langDefaults),
       lineWrap |-> None,
       useTabs |-> Coalesce(settings.useTabs, Coalesce(langDefaults.useTabs, Some(FALSE)))[1],
       singleQuote |->
         Coalesce(settings.singleQuote, Coalesce(langDefaults.singleQuote, Some(TRUE)))[1],
       semi |-> Coalesce(settings.semi, Coalesce(langDefaults.semi, Some(TRUE)))[1],
       trailingComma |-> Coalesce(settings.trailingComma, Some(S_es5))[1]]

\* convertSettings of the second background script.
convertSettings2(settings, language) ==
  LET langDefaults ==
        IF language \in DOMAIN LANGUAGE_DEFAULTS_2
        THEN LANGUAGE_DEFAULTS_2[language] ELSE NoDefaults
  IN  [indentSize |-> ResolveIndentSize(settings, langDefaults),
       lineWrap |-> Coalesce(settings.lineWrap, Coalesce(langDefaults.lineWrap, Some(80))),
       useTabs |-> Coalesce(langDefaults.useTabs, Some(FALSE))[1],
       singleQuote |->
         Coalesce(settings.singleQuote, Coalesce(langDefaults.singleQuote, Some(TRUE)))[1],
       semi |-> Coalesce(settings.semi, Coalesce(langDefaults.semi, Some(TRUE)))[1],
       trailingComma |-> Coalesce(settings.trailingComma, Some(S_es5))[1]]

(***************************************************************************)
(* Cache keys                                                              *)
(***************************************************************************)

J_indentSize == <<"{", "\"", "i", "n", "d", "e", "n", "t", "S", "i", "z", "e", "\"", ":">>
J_lineWrap == <<",", "\"", "l", "i", "n", "e", "W", "r", "a", "p", "\"", ":">>
J_useTabs == <<",", "\"", "u", "s", "e", "T", "a", "b", "s", "\"", ":">>
J_singleQuote == <<",", "\"", "s", "i", "n", "g", "l", "e", "Q", "u", "o", "t", "e", "\"", ":">>
J_semi == <<",", "\"", "s", "e", "m", "i", "\"", ":">>
J_trailingComma == <<",", "\"", "t", "r", "a", "i", "l", "i", "n", "g", "C", "o", "m", "m", "a", "\"", ":", "\"">>
J_close == <<"\"", "}">>

\* Decimal digits of a natural number (String(n)).
RECURSIVE NumberToString(_)
NumberToString(n) ==
  IF n < 10 THEN <<Digits[n + 1]>>
  ELSE NumberToString(n \div 10) \o <<Digits[(n % 10) + 1]>>

BooleanToString(b) == IF b THEN S_true ELSE S_false

\* JSON.stringify of a FormatterSettings object: the fields in the order
\* convertSettings creates them; an undefined field is left out.
JSONStringify(fs) ==
  J_indentSize \o NumberToString(fs.indentSize)
  \o (IF fs.lineWrap # None THEN J_lineWrap \o NumberToString(fs.lineWrap[1]) ELSE <<>>)
  \o J_useTabs \o BooleanToString(fs.useTabs)
  \o J_singleQuote \o BooleanToString(fs.singleQuote)
  \o J_semi \o BooleanToString(fs.semi)
  \o J_trailingComma \o fs.trailingComma \o J_close

\* `${language}:${settingsStr}:${code}`
KeyString(code, language, fs) ==
  language \o <<":">> \o JSONStringify(fs) \o <<":">> \o code

\* crypto.subtle.digest("SHA-256", data), rendered as hex.  The digest is
\* taken to be collision-free: it is represented by the data it was computed
\* from, so that two digests are equal exactly when their inputs are.
Sha256Hex(data) == data

\* hashKey of the first background script: SHA-256 of the key string.
hashKey1(code, language, fs) == Sha256Hex(KeyString(code, language, fs))

\* Bitwise exclusive or of two naturals.
RECURSIVE BitXor(_, _)
BitXor(a, b) ==
  IF a = 0 THEN b
  ELSE IF b = 0 THEN a
  ELSE (((a % 2) + (b % 2)) % 2) + 2 * BitXor(a \div 2, b \div 2)

\* One step of the loop (hash ^= charCode; hash = Math.imul(hash, 16777619))
\* on a 32-bit word held as its two 16-bit halves <<hi, lo>>.
\* 16777619 = 2^24 + 403.
\* Exclusive or of two 4-bit values, tabulated.
XorTable == [a \in 0..15 |-> [b \in 0..15 |-> BitXor(a, b)]]

\* a ^ c for a 16-bit a and a character code c below 256.
XorByte(a, c) ==
  XorTable[a % 16][c % 16] + (16 * XorTable[(a \div 16) % 16][(c \div 16) % 16])
  + (256 * (a \div 256))

FnvStep(h, c) ==
  LET lo1 == XorByte(h[2], c)
      p == lo1 * 403
  IN  <<((h[1] * 403) + (p \div 65536) + ((lo1 % 256) * 256)) % 65536, p % 65536>>

\* Characters of the key string that the second hashKey reads.
HashPrefixLength == 500

Min(a, b) == IF a < b THEN a ELSE b

\* for (let i = 0; i < len; i++) { hash ^= str.charCodeAt(i); hash = imul(...) }
\* over the characters i..n of str, starting from h.  The range is folded
\* by halves (left half first), which visits the characters in loop order.
RECURSIVE FnvLoop(_, _, _, _)
FnvLoop(str, i, n, h) ==
  IF i > n THEN h
  ELSE IF i = n THEN FnvStep(h, CharCode(str[i]))
  ELSE LET mid == (i + n) \div 2
           left == FnvLoop(str, i, mid, h)
       IN  IF left[1] >= 0 THEN FnvLoop(str, mid + 1, n, left) ELSE left

\* hash = 2166136261 (0x811C 0x9DC5), then the loop over the first
\* min(str.length, 500) characters.
Fnv1a(str) == FnvLoop(str, 1, Min(Len(str), HashPrefixLength), <<33052, 40389>>)

\* hashKey of the second background script: `${hash >>> 0}:${code.length}`
hashKey2(code, language, fs) ==
  <<Fnv1a(KeyString(code, language, fs)), Len(code)>>

\* String.prototype.substring(0, n)
Substring0(str, n) == SubSeq(str, 1, Min(Len(str), n))

\* Characters of the code in a content-script cache key.
ContentKeyPrefixLength == 500

\* The content script's cache key: `${language}:${code.substring(0, 500)}`
contentCacheKey(code, language) ==
  language \o <<":">> \o Substring0(code, ContentKeyPrefixLength)

(***************************************************************************)
(* background.ts: cache, rate limit, validation                            *)
(***************************************************************************)

MAX_CACHE_SIZE == 50

MAX_CODE_SIZE == 1048576

RATE_LIMIT_WINDOW == 1000

RATE_LIMIT_MAX == 10

SUPPORTED_LANGUAGES ==
  {S_javascript, S_typescript, S_json, S_css, S_scss, S_less, S_html, S_xml,
   S_python, S_markdown, S_go, S_rust, S_sql, S_yaml, S_toml, S_ruby, S_lua,
   S_zig, S_dart}

\* A code or language that is missing from the message (undefined).
Undefined == <<"undefined">>

\* message === null
NullMessage ==
  [isNull |-> TRUE, action |-> "", code |-> Undefined, language |-> Undefined,
   settings |-> NoSettings]

Message(action, code, language, settings) ==
  [isNull |-> FALSE, action |-> action, code |-> code, language |-> language,
   settings |-> settings]

\* chrome.runtime.MessageSender: id is "none" (absent), "self"
\* (chrome.runtime.id) or "other"; url is "none", "ok" (parseable) or "bad";
\* tab is the optional tab id.
Sender(id, url, tab) == [id |-> id, url |-> url, tab |-> tab]

\* validateSender(sender).valid
validateSender(sender) ==
  IF sender.id = "none" \/ sender.id = "self" THEN TRUE
  ELSE IF sender.url # "none" THEN sender.url = "ok"
  ELSE FALSE

\* A plausible slip: the window is reopened at its reset time already
\* (now >= entry.resetTime).
checkRateLimitResetAtBoundary(map, tabId, time) ==
  IF tabId \notin DOMAIN map \/ time >= map[tabId].resetTime
  THEN [allowed |-> TRUE,
        map |-> [t \in DOMAIN map \cup {tabId} |->
                   IF t = tabId
                   THEN [count |-> 1, resetTime |-> time + RATE_LIMIT_WINDOW]
                   ELSE map[t]]]
  ELSE IF map[tabId].count >= RATE_LIMIT_MAX
  THEN [allowed |-> FALSE, map |-> map]
  ELSE [allowed |-> TRUE,
        map |-> [map EXCEPT ![tabId].count = map[tabId].count + 1]]

\* checkRateLimit(tabId): whether the request is allowed, and the map after.
checkRateLimit(map, tabId, time) ==
  IF tabId \notin DOMAIN map \/ time > map[tabId].resetTime
  THEN [allowed |-> TRUE,
        map |-> [t \in DOMAIN map \cup {tabId} |->
                   IF t = tabId
                   THEN [count |-> 1, resetTime |-> time + RATE_LIMIT_WINDOW]
                   ELSE map[t]]]
  ELSE IF map[tabId].count >= RATE_LIMIT_MAX
  THEN [allowed |-> FALSE, map |-> map]
  ELSE [allowed |-> TRUE,
        map |-> [map EXCEPT ![tabId].count = map[tabId].count + 1]]

\* SUPPORTED_LANGUAGES.includes(formatMsg.language.toLowerCase())
LanguageAllowed(language) == ToLowerCase(language) \in SUPPORTED_LANGUAGES

\* validateFormatMessage(msg): "valid" or the kind of the error message.
validateFormatMessage(msg) ==
  IF msg.isNull THEN "Invalid message format"
  ELSE IF msg.code = Undefined THEN "Missing required parameter: code"
  ELSE IF Len(msg.code) = 0 THEN "Parameter code cannot be empty"
  ELSE IF Len(msg.code) > MAX_CODE_SIZE THEN "Code size exceeds maximum limit"
  ELSE IF msg.language = Undefined THEN "Missing required parameter: language"
  ELSE IF Len(msg.language) = 0 THEN "Parameter language cannot be empty"
  ELSE IF ~LanguageAllowed(msg.language) THEN "Unsupported language"
  ELSE "valid"

\* formatCache.get(key): <<>> (undefined) or <<value>>.
CacheGet(cache, key) ==
  IF \E i \in 1..Len(cache) : cache[i].key = key
  THEN <<cache[CHOOSE i \in 1..Len(cache) : cache[i].key = key].value>>
  ELSE <<>>

\* if (cached): the entry exists and its text is not the empty string.
CacheHit(cached) == cached # <<>> /\ cached[1] # <<>>

\* formatCache.set(key, value): a present key keeps its place.
CacheSet(cache, key, value) ==
  IF \E i \in 1..Len(cache) : cache[i].key = key
  THEN [i \in 1..Len(cache) |->
          IF cache[i].key = key THEN [key |-> key, value |-> value] ELSE cache[i]]
  ELSE Append(cache, [key |-> key, value |-> value])

\* A plausible slip: entries are evicted only above the capacity
\* (formatCache.size > MAX_CACHE_SIZE).
RECURSIVE EvictWhileAbove(_)
EvictWhileAbove(cache) ==
  IF Len(cache) > MAX_CACHE_SIZE /\ Len(cache) > 0
  THEN EvictWhileAbove(Tail(cache)) ELSE cache

\* The first formatCode's store: evict the oldest entries while the cache is
\* full, then set if there is room.
RECURSIVE EvictWhileFull(_)
EvictWhileFull(cache) ==
  IF Len(cache) >= MAX_CACHE_SIZE /\ Len(cache) > 0
  THEN EvictWhileFull(Tail(cache)) ELSE cache

CacheStore1(cache, key, value) ==
  LET room == EvictWhileFull(cache)
  IN  IF Len(room) < MAX_CACHE_SIZE THEN CacheSet(room, key, value) ELSE room

\* The second formatCode's store: evict the oldest entry if full, then set.
CacheStore2(cache, key, value) ==
  CacheSet(IF Len(cache) >= MAX_CACHE_SIZE /\ cache # <<>> THEN Tail(cache) ELSE cache,
           key, value)

CacheStore(version, cache, key, value) ==
  IF version = 1 THEN CacheStore1(cache, key, value) ELSE CacheStore2(cache, key, value)

(***************************************************************************)
(* Records of the state, and the values the parts of the state have while  *)
(* a state machine does not use them.                                      *)
(***************************************************************************)

NoResult == [success |-> FALSE, code |-> <<>>, error |-> NoError]

NoFormatterSettings ==
  [indentSize |-> 0, lineWrap |-> None, useTabs |-> FALSE, singleQuote |-> FALSE,
   semi |-> FALSE, trailingComma |-> <<>>]

\* The last formatCode call that returned: its arguments, its result, the
\* number of registry.format calls it made, and whether it directly followed
\* a successful call with the same arguments (predText is that call's text).
NoCall ==
  [valid |-> FALSE, code |-> <<>>, language |-> <<>>, settings |-> NoSettings,
   result |-> NoResult, backendCalls |-> 0, follows |-> FALSE, predText |-> <<>>]

\* A formatCode call that is suspended at an await.
IdleCall ==
  [pc |-> "idle", msg |-> NullMessage, fs |-> NoFormatterSettings, key |-> <<>>,
   follows |-> FALSE, predText |-> <<>>]

\* The last message whose handling is over: what sendResponse was called
\* with, and whether an exception left the listener.
NoHandled ==
  [valid |-> FALSE, msg |-> NullMessage, path |-> "", responses |-> <<>>,
   threw |-> FALSE]

MaxInFlight == 1      \* formatCode calls suspended at the same time

Slots == 1..MaxInFlight

IdleBackground ==
  /\ bgVersion = 0
  /\ formatCache = <<>>
  /\ rateLimitMap = <<>>
  /\ now = 0
  /\ calls = [s \in Slots |-> IdleCall]
  /\ handled = NoHandled
  /\ lastDone = NoCall
  /\ windows = <<>>

IdleKeys ==
  /\ keyRequests = <<>>
  /\ keyResults = <<>>

IdleSettings ==
  /\ setRequest = [settings |-> NoSettings, language |-> <<>>]
  /\ setResults = [first |-> None, second |-> None]

\* The callers whose format calls of one backend may be suspended together.
MaxConcurrent == 2

Callers == 1..MaxConcurrent

\* The imports of prettier-formatter.ts: the core and PLUGIN_LOADERS.
PrettierCore == "prettier/standalone"

PluginNames == {"babel", "estree", "typescript", "postcss", "html", "markdown"}

NoPrettierReturn == [language |-> <<>>, how |-> "none", success |-> FALSE]

IdlePrettierCall == [pc |-> "idle", language |-> <<>>, core |-> "none", plugin |-> 0]

IdlePrettier ==
  /\ pfVersion = 0
  /\ prettier = "null"
  /\ prettierLoadPromise = "null"
  /\ pluginCache = {}
  /\ pfCalls = [c \in Callers |-> IdlePrettierCall]
  /\ loaderCalls = [n \in PluginNames \cup {PrettierCore} |-> 0]
  /\ pfLast = NoPrettierReturn

\* The (wrapper file, binary file) pairs of the WASM backends, as cache keys.
WasmKeys == {"ruff_fmt_web.js:ruff_fmt_bg.wasm", "gofmt_web.js:gofmt.wasm"}

IdleWasmCall == [pc |-> "idle", key |-> "", result |-> "none"]

IdleWasm ==
  /\ wasmEnv = [supported |-> TRUE, initOk |-> TRUE]
  /\ wasmCache = {}
  /\ wasmCalls = [c \in Callers |-> IdleWasmCall]
  /\ initAsyncCalls = [k \in WasmKeys |-> 0]
  /\ initResolved = {}

IdleWasmFormatCall ==
  [pc |-> "idle", formatter |-> "", code |-> <<>>, probe |-> TRUE, ops |-> {},
   result |-> NoResult]

\* The callers whose format calls of WASM backends may be suspended together.
MaxWasmCallers == 1

WasmCallers == 1..MaxWasmCallers

IdleWasmFormat == wfCalls = [c \in WasmCallers |-> IdleWasmFormatCall]

IdleBackendCall ==
  /\ backendRequest = None
  /\ backendOutcome = None

NoRegistryCall == [code |-> <<>>, language |-> <<>>, invoked |-> <<>>, result |-> NoResult]

IdleRegistryCall == regCall = NoRegistryCall

IdleTyping ==
  /\ formatSequence = 0
  /\ editorOpen = FALSE
  /\ editorDoc = <<>>
  /\ debounceTimer = FALSE
  /\ pendingFormats = {}
  /\ currentEditorCode = <<>>
  /\ replaceFormats = {}

NoLruCall == [op |-> "none", key |-> "", value |-> 0, returned |-> None]

IdleLru ==
  /\ lruMaxSize = 50
  /\ lruCache = <<>>
  /\ lruLast = NoLruCall
  /\ lruUses = <<>>

\* The formatCode calls of the content script that may be pending together.
MaxContentCalls == 1

ContentCallers == 1..MaxContentCalls

IdleContentCall ==
  [pc |-> "idle", code |-> <<>>, language |-> <<>>, how |-> "none", response |-> None,
   outcome |-> None]

IdleContent ==
  /\ contentCache = <<>>
  /\ fcCalls = [c \in ContentCallers |-> IdleContentCall]

NoDetection == [content |-> None, detection |-> None]

NoCodePage == [page |-> None, returned |-> None]

IdleDetect ==
  /\ detectInput = None
  /\ detectResults = NoDetection
  /\ codePage = NoCodePage

IdlePaste ==
  /\ isProcessing = FALSE
  /\ pasteAwaiting = 0
  /\ pasteEvents = <<>>

\* A process whose script has not run yet.
IdleStart ==
  /\ isInitialized = FALSE
  /\ messageListeners = 0
  /\ contextMenuSetups = 0
  /\ fired = {}
  /\ defaultsStored = FALSE
  /\ changelog = "none"
  /\ dispatched = <<>>

IdleUnits ==
  /\ IdleDetect
  /\ IdlePaste
  /\ IdleStart
  /\ IdleWasmFormat
  /\ IdleBackendCall
  /\ IdleRegistryCall
  /\ IdleTyping
  /\ IdleLru
  /\ IdleContent

IdleExt == IdleSettings /\ IdlePrettier /\ IdleWasm /\ IdleUnits

IdleFormat ==
  /\ fmtRequest = <<>>
  /\ fmtEnv = <<>>
  /\ fmtResults = <<>>

(***************************************************************************)
(* Registry state machine: the singleton after construction, then          *)
(* arbitrary register calls and lookups.                                   *)
(***************************************************************************)

MaxRegister == 2      \* register calls after construction

\* Ids and language lists of the backends registered by callers.
TestIds == {"A", "B"}

TestLanguageLists ==
  {<<>>, <<S_json>>, <<ToUpperCase(S_js)>>, <<S_json, ToUpperCase(S_js)>>}

TestFormatters == {[id |-> i, languages |-> ls] : i \in TestIds, ls \in TestLanguageLists}

\* Language strings callers look up: canonical names, aliases, other casings,
\* and a language nobody declares.
LookupLanguages ==
  LET base == {S_js, S_golang, S_cobol}
  IN  {S_javascript, S_json} \cup base \cup {ToUpperCase(l) : l \in base}

NoLookup == [language |-> <<>>, supported |-> FALSE, formatter |-> Null]

\* The registry singleton right after module load.
InitDefaultRegistry ==
  /\ formatters = NewRegistry.formatters
  /\ languageMap = NewRegistry.languageMap
  /\ regLog = DefaultFormatters
  /\ lastLookup = NoLookup

InitRegistry ==
  /\ InitDefaultRegistry
  /\ IdleExt
  /\ IdleBackground
  /\ IdleKeys
  /\ IdleFormat

\* registry.register(formatter)
Register(formatter) ==
  /\ Len(regLog) < Len(DefaultFormatters) + MaxRegister
  /\ LET reg == RegisterInto([formatters |-> formatters, languageMap |-> languageMap],
                             formatter)
     IN  /\ formatters' = reg.formatters
         /\ languageMap' = reg.languageMap
  /\ regLog' = Append(regLog, formatter)
  /\ UNCHANGED <<lastLookup, bgVars, keyVars, fmtVars, extVars>>

\* registry.isSupported(language) and registry.getFormatter(language)
Lookup(language) ==
  /\ lastLookup' = [language |-> language,
                    supported |-> isSupported(language),
                    formatter |-> getFormatter(language)]
  /\ UNCHANGED <<formatters, languageMap, regLog, bgVars, keyVars, fmtVars, extVars>>

NextRegistry ==
  \/ \E f \in TestFormatters : Register(f)
  \/ \E l \in LookupLanguages : Lookup(l)

SpecRegistry == InitRegistry /\ [][NextRegistry]_vars

(***************************************************************************)
(* Background script as a state machine: messages are delivered to the     *)
(* listener of setupMessageHandlers; a formatCode call that reaches an     *)
(* await stays in a slot until the awaited promise settles.                *)
(***************************************************************************)

Blank == <<" ">>

CodeA == <<"a">>

S_format == "format"

FormatMessages ==
  {Message(S_format, Blank, S_rust, NoSettings),
   Message(S_format, CodeA, S_rust, NoSettings),
   Message(S_format, CodeA, S_javascript, NoSettings),
   Message(S_format, CodeA, S_js, NoSettings),
   Message(S_format, CodeA, S_cobol, NoSettings),
   Message(S_format, CodeA, Undefined, NoSettings),
   Message(S_format, Undefined, S_rust, NoSettings)}

OtherMessages ==
  {Message("getSupportedLanguages", Undefined, Undefined, NoSettings),
   Message("checkLanguageSupport", Undefined, S_js, NoSettings),
   Message("checkLanguageSupport", Undefined, Undefined, NoSettings),
   Message("ping", Undefined, Undefined, NoSettings)}

\* An extension page: no tab, so no rate limiting.
ExtensionPage == Sender("self", "none", None)

\* The content script of a tab.
ContentScript == Sender("self", "ok", Some(1))

Stranger == Sender("other", "none", None)

\* The (message, sender) pairs that are delivered.
Deliveries ==
  ((FormatMessages \cup OtherMessages) \X {ExtensionPage})
  \cup ({Message("getSupportedLanguages", Undefined, Undefined, NoSettings)} \X {Stranger})

\* The format requests that are delivered while the clock runs: from a tab,
\* and from a sender without a tab.
TabDeliveries ==
  {<<Message(S_format, CodeA, S_rust, NoSettings), ContentScript>>,
   <<Message(S_format, CodeA, S_cobol, NoSettings), ExtensionPage>>}

\* The clock readings.
Instants == {0, RATE_LIMIT_WINDOW, RATE_LIMIT_WINDOW + 1}

\* sendResponse({ success: true, code })
RespondSuccess(text) == [success |-> TRUE, code |-> Some(text), error |-> "none"]

\* sendResponse({ success: false, error }): the response has no code field.
RespondFailure(error) == [success |-> FALSE, code |-> None, error |-> error]

\* sendResponse of getSupportedLanguages and checkLanguageSupport
RespondInfo == [success |-> TRUE, code |-> None, error |-> "none"]

\* The .then callback of the listener.
ThenResponse(result) ==
  IF result.success THEN RespondSuccess(result.code)
  ELSE RespondFailure(result.error.kind)

\* What the listener has done when it returns: the path taken, the
\* sendResponse calls so far, whether it threw, the rate-limit map, where
\* formatCode is suspended ("idle" if it is not), and formatCode's result if
\* it has returned one.
Outcome(path, responses, threw, map, pc, fs, key, done, result) ==
  [path |-> path, responses |-> responses, threw |-> threw, map |-> map, pc |-> pc,
   fs |-> fs, key |-> key, done |-> done, result |-> result]

Answered(path, response, map) ==
  Outcome(path, <<response>>, FALSE, map, "idle", NoFormatterSettings, <<>>, FALSE, NoResult)

Returned(result, map) ==
  Outcome(IF result.success THEN "format success" ELSE "format failure",
          <<ThenResponse(result)>>, FALSE, map, "idle", NoFormatterSettings, <<>>,
          TRUE, result)

\* formatCode rejected: the .catch callback answers.
Rejected(map) ==
  Outcome("format rejected", <<RespondFailure("exception")>>, FALSE, map, "idle",
          NoFormatterSettings, <<>>, FALSE, NoResult)

Suspended(pc, fs, key, map) ==
  Outcome("in flight", <<>>, FALSE, map, pc, fs, key, FALSE, NoResult)

\* formatCode of the first background script up to its first await.
FormatCodeStart1(msg, map) ==
  IF ~isSupported(msg.language)
  THEN Returned(Failure(msg.code, "Language is not supported", msg.language), map)
  ELSE Suspended("hash", convertSettings1(msg.settings, msg.language), <<>>, map)

\* formatCode of the second background script up to its first await.  With
\* an undefined language isSupported throws, with an undefined code hashKey
\* throws (code.length): the promise is rejected.
FormatCodeStart2(msg, cache, map) ==
  IF msg.language = Undefined THEN Rejected(map)
  ELSE IF ~isSupported(msg.language)
  THEN Returned(Failure(msg.code, "Language is not supported", msg.language), map)
  ELSE IF msg.code = Undefined THEN Rejected(map)
  ELSE LET fs == convertSettings2(msg.settings, msg.language)
           AfterKey(key) ==
             LET cached == CacheGet(cache, key)
             IN  IF CacheHit(cached) THEN Returned(Success(cached[1]), map)
                 ELSE Suspended("backend", fs, key, map)
       IN  CHOOSE out \in {AfterKey(key) : key \in {hashKey2(msg.code, msg.language, fs)}} :
             TRUE

\* A plausible slip: the validation error is answered, and formatCode is
\* started all the same.
Listener1DispatchInvalid(msg, sender, map, time) ==
  LET limited == msg.action = S_format /\ sender.tab # None /\ sender.tab[1] # 0
      rate == IF limited THEN checkRateLimit(map, sender.tab[1], time)
              ELSE [allowed |-> TRUE, map |-> map]
      validationError == validateFormatMessage(msg)
  IN  IF ~validateSender(sender)
      THEN Answered("unauthorized", RespondFailure("Unauthorized message sender"), map)
      ELSE IF ~rate.allowed
      THEN Answered("rate limited", RespondFailure("Rate limit exceeded"), rate.map)
      ELSE IF msg.action = S_format
      THEN IF validationError # "valid"
           THEN Outcome("invalid message", <<RespondFailure(validationError)>>, FALSE,
                        rate.map, "hash", NoFormatterSettings, <<>>, FALSE, NoResult)
           ELSE FormatCodeStart1(msg, rate.map)
      ELSE IF msg.action = "getSupportedLanguages"
      THEN Answered("getSupportedLanguages", RespondInfo, map)
      ELSE IF msg.action = "checkLanguageSupport"
      THEN IF msg.language = Undefined
           THEN Answered("checkLanguageSupport",
                         RespondFailure("Invalid or missing language parameter"), map)
           ELSE Answered("checkLanguageSupport", RespondInfo, map)
      ELSE Answered("unknown action", RespondFailure("Unknown action"), map)

\* The listener of the first background script.
Listener1(msg, sender, map, time) ==
  LET limited == msg.action = S_format /\ sender.tab # None /\ sender.tab[1] # 0
      rate == IF limited THEN checkRateLimit(map, sender.tab[1], time)
              ELSE [allowed |-> TRUE, map |-> map]
      validationError == validateFormatMessage(msg)
  IN  IF ~validateSender(sender)
      THEN Answered("unauthorized", RespondFailure("Unauthorized message sender"), map)
      ELSE IF ~rate.allowed
      THEN Answered("rate limited", RespondFailure("Rate limit exceeded"), rate.map)
      ELSE IF msg.action = S_format
      THEN IF validationError # "valid"
           THEN Answered("invalid message", RespondFailure(validationError), rate.map)
           ELSE FormatCodeStart1(msg, rate.map)
      ELSE IF msg.action = "getSupportedLanguages"
      THEN Answered("getSupportedLanguages", RespondInfo, map)
      ELSE IF msg.action = "checkLanguageSupport"
      THEN IF msg.language = Undefined
           THEN Answered("checkLanguageSupport",
                         RespondFailure("Invalid or missing language parameter"), map)
           ELSE Answered("checkLanguageSupport", RespondInfo, map)
      ELSE Answered("unknown action", RespondFailure("Unknown action"), map)

\* The listener of the second background script.  checkLanguageSupport
\* calls isSupported(formatMsg.language) in the listener itself: with an
\* undefined language normalizeLanguage throws and the listener is left
\* before sendResponse.
Listener2(msg, cache, map) ==
  IF msg.action = S_format THEN FormatCodeStart2(msg, cache, map)
  ELSE IF msg.action = "getSupportedLanguages"
  THEN Answered("getSupportedLanguages", RespondInfo, map)
  ELSE IF msg.action = "checkLanguageSupport"
  THEN IF msg.language = Undefined
       THEN Outcome("checkLanguageSupport", <<>>, TRUE, map, "idle",
                    NoFormatterSettings, <<>>, FALSE, NoResult)
       ELSE Answered("checkLanguageSupport", RespondInfo, map)
  ELSE Answered("unknown action", RespondFailure("Unknown action"), map)

Listener(version, msg, sender, cache, map, time) ==
  IF version = 1 THEN Listener1(msg, sender, map, time) ELSE Listener2(msg, cache, map)

\* Whether a formatCode call that starts now directly follows a successful
\* call with the same arguments.
Follows(msg) ==
  /\ \A s \in Slots : calls[s].pc = "idle"
  /\ lastDone.valid
  /\ lastDone.result.success
  /\ lastDone.code = msg.code
  /\ lastDone.language = msg.language
  /\ lastDone.settings = msg.settings

DoneCall(msg, result, backendCalls, follows, predText) ==
  [valid |-> TRUE, code |-> msg.code, language |-> msg.language,
   settings |-> msg.settings, result |-> result, backendCalls |-> backendCalls,
   follows |-> follows, predText |-> predText]

HandledMessage(msg, path, responses, threw) ==
  [valid |-> TRUE, msg |-> msg, path |-> path, responses |-> responses, threw |-> threw]

\* Another formatCode call starts: the suspended calls no longer follow
\* their predecessor directly.
Interleave(cs) == [s \in Slots |-> [cs[s] EXCEPT !.follows = FALSE]]

InitBackground ==
  /\ InitDefaultRegistry
  /\ IdleExt
  /\ bgVersion \in {1, 2}
  /\ formatCache = <<>>
  /\ rateLimitMap = <<>>
  /\ now = 0
  /\ calls = [s \in Slots |-> IdleCall]
  /\ handled = NoHandled
  /\ lastDone = NoCall
  /\ windows = <<>>
  /\ IdleKeys
  /\ IdleFormat

\* A caller's format request at the given time, entered in the caller's
\* window: the first request opens a window of RATE_LIMIT_WINDOW ms, a
\* request strictly after the end of the window opens the next one.  The
\* requests and the admitted requests of the window are counted up to
\* RATE_LIMIT_MAX + 1.
Observe(w, caller, time, admitted) ==
  LET fresh == caller \notin DOMAIN w \/ time > w[caller].opened + RATE_LIMIT_WINDOW
      one == IF admitted THEN 1 ELSE 0
      entry == IF fresh THEN [opened |-> time, requests |-> 1, admitted |-> one]
               ELSE [opened |-> w[caller].opened,
                     requests |-> Min(w[caller].requests + 1, RATE_LIMIT_MAX + 1),
                     admitted |-> Min(w[caller].admitted + one, RATE_LIMIT_MAX + 1)]
  IN  [c \in DOMAIN w \cup {caller} |-> IF c = caller THEN entry ELSE w[c]]

\* chrome.runtime.onMessage delivers msg: the listener runs to its return,
\* with the part of formatCode before its first await.
Handle(msg, sender, observed) ==
  \E out \in {Listener(bgVersion, msg, sender, formatCache, rateLimitMap, now)} :
  LET follows == Follows(msg)
      predText == IF follows THEN lastDone.result.code ELSE <<>>
      startsCall == out.pc # "idle" \/ out.done \/ out.path = "format rejected"
  IN  /\ out.pc # "idle" => \E s \in Slots : calls[s].pc = "idle"
      /\ rateLimitMap' = out.map
      /\ handled' = IF out.pc = "idle"
                    THEN HandledMessage(msg, out.path, out.responses, out.threw)
                    ELSE handled
      /\ lastDone' = IF out.done THEN DoneCall(msg, out.result, 0, follows, predText)
                     ELSE IF out.path = "format rejected" THEN NoCall
                     ELSE lastDone
      /\ calls' =
           IF out.pc # "idle"
           THEN LET s == CHOOSE t \in Slots :
                           calls[t].pc = "idle" /\ \A u \in Slots : calls[u].pc = "idle" => t <= u
                IN  [Interleave(calls) EXCEPT ![s] =
                       [pc |-> out.pc, msg |-> msg, fs |-> out.fs, key |-> out.key,
                        follows |-> follows, predText |-> predText]]
           ELSE IF startsCall THEN Interleave(calls)
           ELSE calls
      /\ windows' = IF observed /\ msg.action = S_format
                    THEN Observe(windows, sender.tab, now, out.path # "rate limited")
                    ELSE windows
      /\ UNCHANGED <<bgVersion, formatCache, now, regVars, keyVars, fmtVars, extVars>>

Deliver(msg, sender) == Handle(msg, sender, FALSE)

\* The same, with the request entered in the window of its caller.
DeliverFromTab(msg, sender) == Handle(msg, sender, TRUE)

\* A call leaves its slot with a result: the .then callback answers.
Finish(s, result, backendCalls) ==
  /\ handled' = HandledMessage(calls[s].msg,
                               IF result.success THEN "format success" ELSE "format failure",
                               <<ThenResponse(result)>>, FALSE)
  /\ lastDone' = DoneCall(calls[s].msg, result, backendCalls, calls[s].follows,
                          calls[s].predText)
  /\ calls' = [calls EXCEPT ![s] = IdleCall]

\* A plausible slip: a cache hit moves the entry read to the young end of the
\* cache, as a least-recently-used cache does.
HashDoneTouch(s) ==
  /\ calls[s].pc = "hash"
  /\ LET msg == calls[s].msg
         key == hashKey1(msg.code, msg.language, calls[s].fs)
         cached == CacheGet(formatCache, key)
         others == SelectSeq(formatCache, LAMBDA e : e.key # key)
     IN  IF CacheHit(cached)
         THEN /\ Finish(s, Success(cached[1]), 0)
              /\ formatCache' = Append(others, [key |-> key, value |-> cached[1]])
         ELSE /\ calls' = [calls EXCEPT ![s].pc = "backend", ![s].key = key]
              /\ UNCHANGED <<handled, lastDone, formatCache>>
  /\ UNCHANGED <<bgVersion, rateLimitMap, now, windows, regVars, keyVars, fmtVars, extVars>>

\* First background script: await hashKey(...) settles, then the cache is
\* read; on a miss formatterRegistry.format is called.
HashDone(s) ==
  /\ calls[s].pc = "hash"
  /\ LET msg == calls[s].msg
         key == hashKey1(msg.code, msg.language, calls[s].fs)
         cached == CacheGet(formatCache, key)
     IN  IF CacheHit(cached)
         THEN Finish(s, Success(cached[1]), 0)
         ELSE /\ calls' = [calls EXCEPT ![s].pc = "backend", ![s].key = key]
              /\ UNCHANGED <<handled, lastDone>>
  /\ UNCHANGED <<bgVersion, formatCache, rateLimitMap, now, windows, regVars, keyVars,
                 fmtVars, extVars>>

\* A plausible slip: the result is stored whether it succeeded or not.
BackendDoneStoreAlways(s, env) ==
  /\ calls[s].pc = "backend"
  /\ LET msg == calls[s].msg
         result == RegistryFormat(msg.code, msg.language, env)
     IN  /\ formatCache' = CacheStore(bgVersion, formatCache, calls[s].key, result.code)
         /\ Finish(s, result, 1)
  /\ UNCHANGED <<bgVersion, rateLimitMap, now, windows, regVars, keyVars, fmtVars, extVars>>

\* await formatterRegistry.format(...) settles in environment env; a
\* successful result is stored in the cache and the result is returned.
BackendDone(s, env) ==
  /\ calls[s].pc = "backend"
  /\ LET msg == calls[s].msg
         result == RegistryFormat(msg.code, msg.language, env)
     IN  /\ formatCache' = IF result.success
                           THEN CacheStore(bgVersion, formatCache, calls[s].key, result.code)
                           ELSE formatCache
         /\ Finish(s, result, 1)
  /\ UNCHANGED <<bgVersion, rateLimitMap, now, windows, regVars, keyVars, fmtVars, extVars>>

\* Time passes.
Tick ==
  /\ \E t \in Instants : t > now /\ now' = t
  /\ UNCHANGED <<bgVersion, formatCache, rateLimitMap, calls, handled, lastDone, windows,
                 regVars, keyVars, fmtVars, extVars>>

Next ==
  \/ \E d \in Deliveries : Deliver(d[1], d[2])
  \/ \E s \in Slots : HashDone(s)
  \/ \E s \in Slots, env \in Environments : BackendDone(s, env)

\* Messages from extension pages and strangers.
Spec == InitBackground /\ [][Next]_vars

NextRate ==
  \/ \E d \in TabDeliveries : DeliverFromTab(d[1], d[2])
  \/ \E s \in Slots : HashDone(s)
  \/ \E s \in Slots, env \in Environments : BackendDone(s, env)
  \/ Tick

\* Messages from tabs, which are rate limited, while time passes.
SpecRate == InitBackground /\ [][NextRate]_vars

\* Format requests whose backend calls succeed (Rust, by the fallback
\* backend) or may fail (JavaScript, by a library that may throw).
StoreDeliveries ==
  {<<Message(S_format, CodeA, S_rust, NoSettings), ExtensionPage>>,
   <<Message(S_format, Blank, S_rust, NoSettings), ExtensionPage>>,
   <<Message(S_format, CodeA, S_javascript, NoSettings), ExtensionPage>>}

NextStore ==
  \/ \E d \in StoreDeliveries : Deliver(d[1], d[2])
  \/ \E s \in Slots : HashDone(s)
  \/ \E s \in Slots, env \in Environments : BackendDone(s, env)

\* Requests that fill the cache, with backends that succeed and fail.
SpecStore == InitBackground /\ [][NextStore]_vars

\* A code of one character more than MAX_CODE_SIZE.
Oversized == [i \in 1..(MAX_CODE_SIZE + 1) |-> "a"]

\* Format requests of the kinds the listener may reject, and one that a tab
\* repeats until it is rate limited.
RejectDeliveries ==
  {<<Message(S_format, CodeA, S_rust, NoSettings), ContentScript>>,
   <<Message(S_format, <<>>, S_rust, NoSettings), ExtensionPage>>,
   <<Message(S_format, Oversized, S_cobol, NoSettings), ExtensionPage>>,
   <<Message(S_format, CodeA, S_cobol, NoSettings), ExtensionPage>>}

NextReject ==
  \/ \E d \in RejectDeliveries : Deliver(d[1], d[2])
  \/ \E s \in Slots : HashDone(s)
  \/ \E s \in Slots, env \in Environments : BackendDone(s, env)

\* Rate-limited, empty, oversized and unsupported format requests.
SpecReject == InitBackground /\ [][NextReject]_vars

(***************************************************************************)
(* The cache near its capacity: the background script starts with the      *)
(* cache it has after the first n of a series of requests were formatted   *)
(* in order (none, all but one, or all MAX_CACHE_SIZE of them), and then   *)
(* receives the oldest request of the series again and requests the series *)
(* has not yet.                                                            *)
(***************************************************************************)

\* The i-th request of the series: a code of i characters, in Rust.
SeriesMessage(i) == Message(S_format, [j \in 1..i |-> "a"], S_rust, NoSettings)

\* The cache key formatCode computes for a message.
KeyOfMessage(version, msg) ==
  IF version = 1
  THEN hashKey1(msg.code, msg.language, convertSettings1(msg.settings, msg.language))
  ELSE hashKey2(msg.code, msg.language, convertSettings2(msg.settings, msg.language))

\* formatCache after the requests lo..hi of the series were formatted one
\* after the other, starting from cache (computed by halves).
RECURSIVE FillRange(_, _, _, _)
FillRange(version, cache, lo, hi) ==
  IF lo > hi THEN cache
  ELSE IF lo = hi
  THEN CacheStore(version, cache, KeyOfMessage(version, SeriesMessage(lo)),
                  FallbackFormat(SeriesMessage(lo).code, SeriesMessage(lo).language).code)
  ELSE LET mid == (lo + hi) \div 2
       IN  CHOOSE after \in {FillRange(version, left, mid + 1, hi) :
                               left \in {FillRange(version, cache, lo, mid)}} : TRUE

\* formatCache after the first n requests of the series.
Filled(version, n) == FillRange(version, <<>>, 1, n)

SeriesDeliveries ==
  {<<SeriesMessage(i), ExtensionPage>> : i \in {1, MAX_CACHE_SIZE + 1, MAX_CACHE_SIZE + 2}}

InitCache ==
  /\ InitDefaultRegistry
  /\ IdleExt
  /\ bgVersion \in {1, 2}
  /\ formatCache \in {Filled(bgVersion, n) : n \in {0, MAX_CACHE_SIZE - 1, MAX_CACHE_SIZE}}
  /\ rateLimitMap = <<>>
  /\ now = 0
  /\ calls = [s \in Slots |-> IdleCall]
  /\ handled = NoHandled
  /\ lastDone = NoCall
  /\ windows = <<>>
  /\ IdleKeys
  /\ IdleFormat

NextCache ==
  \/ \E d \in SeriesDeliveries : Deliver(d[1], d[2])
  \/ \E s \in Slots : HashDone(s)
  \/ \E s \in Slots, env \in Environments : BackendDone(s, env)

SpecCache == InitCache /\ [][NextCache]_vars

(***************************************************************************)
(* Cache keys of two requests: the two hashKey functions of the background *)
(* scripts and the content script's key, applied to a pair of requests     *)
(* (code, language, resolved settings).                                    *)
(***************************************************************************)

LongCodeLength == 500     \* length of the long codes

\* A code of LongCodeLength characters that ends in c.
LongCode(c) == [i \in 1..LongCodeLength |-> IF i = LongCodeLength THEN c ELSE "x"]

KeyCodes == {<<"a">>, <<"b">>, LongCode("a"), LongCode("b")}

KeyLanguages == {S_javascript, S_rust}

KeySettings ==
  {convertSettings1(NoSettings, S_javascript), convertSettings2(NoSettings, S_rust)}

KeyRequests == [code : KeyCodes, language : KeyLanguages, fs : KeySettings]

NoKeys == [sha |-> <<>>, fnv |-> <<>>, content |-> <<>>]

InitKeys ==
  /\ InitDefaultRegistry
  /\ IdleExt
  /\ IdleBackground
  /\ IdleFormat
  /\ keyRequests \in KeyRequests \X KeyRequests
  /\ keyResults = NoKeys

\* hashKey of the first background script on both requests
ComputeSha ==
  /\ keyResults.sha = <<>>
  /\ keyResults' =
       [keyResults EXCEPT !.sha =
          [i \in 1..2 |-> hashKey1(keyRequests[i].code, keyRequests[i].language,
                                   keyRequests[i].fs)]]
  /\ UNCHANGED <<keyRequests, regVars, bgVars, fmtVars, extVars>>

\* hashKey of the second background script on both requests
ComputeFnv ==
  /\ keyResults.fnv = <<>>
  /\ keyResults' =
       [keyResults EXCEPT !.fnv =
          [i \in 1..2 |-> hashKey2(keyRequests[i].code, keyRequests[i].language,
                                   keyRequests[i].fs)]]
  /\ UNCHANGED <<keyRequests, regVars, bgVars, fmtVars, extVars>>

\* the content script's cache key on both requests
ComputeContentKey ==
  /\ keyResults.content = <<>>
  /\ keyResults' =
       [keyResults EXCEPT !.content =
          [i \in 1..2 |-> contentCacheKey(keyRequests[i].code, keyRequests[i].language)]]
  /\ UNCHANGED <<keyRequests, regVars, bgVars, fmtVars, extVars>>

NextKeys == ComputeSha \/ ComputeFnv \/ ComputeContentKey

SpecKeys == InitKeys /\ [][NextKeys]_vars

\* C3: in every cache that fronts formatting, two requests that differ in
\* code, in language or in settings never map to the same cache key.
C3_NoKeyCollision ==
  keyRequests # <<>> /\ keyRequests[1] # keyRequests[2] =>
    /\ keyResults.sha # <<>> => keyResults.sha[1] # keyResults.sha[2]
    /\ keyResults.fnv # <<>> => keyResults.fnv[1] # keyResults.fnv[2]
    /\ keyResults.content # <<>> => keyResults.content[1] # keyResults.content[2]

(***************************************************************************)
(* FormatterRegistry.format on two spellings of one language: the same     *)
(* code is formatted as language a and as language c in one environment.   *)
(***************************************************************************)

FormatLanguages ==
  {S_js, ToUpperCase(S_js), S_javascript, S_rs, S_rust, S_golang, S_go, S_cobol}

FormatRequests ==
  {r \in [code : {CodeA, Blank}, a : FormatLanguages, c : FormatLanguages] :
     normalizeLanguage(r.a) = normalizeLanguage(r.c)}

NoFormats == [a |-> None, c |-> None]

InitFormat ==
  /\ InitDefaultRegistry
  /\ IdleExt
  /\ IdleBackground
  /\ IdleKeys
  /\ fmtRequest \in FormatRequests
  /\ fmtEnv \in Environments
  /\ fmtResults = NoFormats

\* formatterRegistry.format(code, a, settings)
FormatA ==
  /\ fmtResults.a = None
  /\ fmtResults' =
       [fmtResults EXCEPT !.a = Some(RegistryFormat(fmtRequest.code, fmtRequest.a, fmtEnv))]
  /\ UNCHANGED <<fmtRequest, fmtEnv, regVars, bgVars, keyVars, extVars>>

\* formatterRegistry.format(code, c, settings)
FormatC ==
  /\ fmtResults.c = None
  /\ fmtResults' =
       [fmtResults EXCEPT !.c = Some(RegistryFormat(fmtRequest.code, fmtRequest.c, fmtEnv))]
  /\ UNCHANGED <<fmtRequest, fmtEnv, regVars, bgVars, keyVars, extVars>>

NextFormat == FormatA \/ FormatC

SpecFormat == InitFormat /\ [][NextFormat]_vars

\* C8: FormatterRegistry.format returns the same FormatResult for two
\* languages a and c with normalizeLanguage(a) = normalizeLanguage(c).
C8_SameResultForSameLanguage ==
  /\ fmtRequest # <<>>
  /\ fmtResults.a # None
  /\ fmtResults.c # None
  /\ normalizeLanguage(fmtRequest.a) = normalizeLanguage(fmtRequest.c)
  => fmtResults.a = fmtResults.c

(***************************************************************************)
(* Background claims                                                       *)
(***************************************************************************)

\* C1: every failure returned for a format request carries the original
\* input code of that request: the response the message handler sends, the
\* result of formatCode, and the result of every registered backend and of
\* the registry for a call that is in flight.
C1_FailureCarriesCode ==
  /\ handled.valid /\ handled.msg.action = S_format =>
       \A i \in 1..Len(handled.responses) :
         ~handled.responses[i].success =>
           handled.responses[i].code = Some(handled.msg.code)
  /\ lastDone.valid /\ ~lastDone.result.success =>
       lastDone.result.code = lastDone.code
  /\ \A s \in Slots, env \in Environments :
       calls[s].pc = "backend" =>
         /\ \A id \in DOMAIN formatters :
              LET r == BackendFormat(formatters[id], calls[s].msg.code,
                                     calls[s].msg.language, env)
              IN  ~r.success => r.code = calls[s].msg.code
         /\ LET r == RegistryFormat(calls[s].msg.code, calls[s].msg.language, env)
            IN  ~r.success => r.code = calls[s].msg.code

\* C2: a formatCode call that directly follows a successful call with the
\* same (code, language, settings) returns success with the text of that
\* call, and formatterRegistry.format is not called during it.
C2_SecondCallFromCache ==
  lastDone.valid /\ lastDone.follows =>
    /\ lastDone.result.success
    /\ lastDone.result.code = lastDone.predText
    /\ lastDone.backendCalls = 0

\* C4: for every message whose handling is over, sendResponse was called
\* exactly once and no exception left the listener.
C4_ExactlyOneResponse ==
  handled.valid => Len(handled.responses) = 1 /\ ~handled.threw

\* The response says that the language is not supported.
RejectedAsUnsupported(h) ==
  /\ Len(h.responses) = 1
  /\ h.responses[1].error \in {"Unsupported language", "Language is not supported"}

\* C9: a format message that reaches the language check is rejected as an
\* unsupported language exactly when isSupported(language) is false.
C9_AllowlistIsRegistry ==
  /\ handled.valid
  /\ handled.msg.action = S_format
  /\ handled.msg.code # Undefined
  /\ handled.msg.language # Undefined
  /\ handled.path \notin {"unauthorized", "rate limited"}
  => (RejectedAsUnsupported(handled) <=> ~isSupported(handled.msg.language))

(***************************************************************************)
(* Registry claims                                                         *)
(***************************************************************************)

Max(S) == CHOOSE x \in S : \A y \in S : y <= x

\* Every canonical language some register call has declared.
EverDeclared == UNION {DeclaredLanguages(regLog[i]) : i \in 1..Len(regLog)}

\* The register calls whose backend declares language l.
DeclaringCalls(l) == {i \in 1..Len(regLog) : l \in DeclaredLanguages(regLog[i])}

\* The register calls whose backend declares l and is still the backend held
\* under its id.
LiveDeclaringCalls(l) ==
  {i \in DeclaringCalls(l) :
     regLog[i].id \in DOMAIN formatters /\ formatters[regLog[i].id] = regLog[i]}

\* C5: after any sequence of register calls, getFormatter(L) returns the most
\* recently registered backend among those that declare a language
\* normalizing to L (read either over all register calls or over the backends
\* still held by the registry).
C5_LastRegisteredWins ==
  \A l \in EverDeclared :
    \/ getFormatter(l) = regLog[Max(DeclaringCalls(l))]
    \/ /\ LiveDeclaringCalls(l) # {}
       /\ getFormatter(l) = regLog[Max(LiveDeclaringCalls(l))]

\* The backends currently held in the id-to-backend map.
RegisteredBackends == {formatters[id] : id \in DOMAIN formatters}

\* C6: every canonical language declared by a registered backend is bound to
\* one backend id, the id is in the id-to-backend map, the backend it
\* resolves to declares the language, and isSupported(L) holds exactly when
\* getFormatter(L) is non-null.
C6_BindingInvariant ==
  /\ \A b \in RegisteredBackends : \A l \in DeclaredLanguages(b) :
        /\ l \in DOMAIN languageMap
        /\ languageMap[l] \in DOMAIN formatters
        /\ l \in DeclaredLanguages(formatters[languageMap[l]])
  /\ \A l \in LookupLanguages \cup DOMAIN languageMap :
        isSupported(l) <=> (getFormatter(l) # Null)

\* Position of the register call of the backend with the given id.
RegisteredAt(id) == CHOOSE i \in 1..Len(regLog) : regLog[i].id = id

WebLanguages == {S_javascript, S_typescript, S_json, S_css, S_scss, S_html}

\* C7: in a freshly constructed registry js-beautify is registered first,
\* Prettier and the WASM formatters after it and the fallback formatter last,
\* so that the web languages resolve to Prettier.
C7_DefaultOrder ==
  regLog = DefaultFormatters =>
    /\ RegisteredAt("js-beautify") = 1
    /\ RegisteredAt("js-beautify") < RegisteredAt("prettier")
    /\ RegisteredAt("fallback") = Len(regLog)
    /\ \A l \in WebLanguages : getFormatter(l) = PrettierFormatter

\* The alias table of the claim: alias and canonical name.
AliasPairs ==
  {<<S_js, S_javascript>>, <<S_ts, S_typescript>>, <<S_py, S_python>>,
   <<S_rs, S_rust>>, <<S_golang, S_go>>, <<S_yml, S_yaml>>}

Casings(l) == {l, ToUpperCase(l), Capitalize(l)}

\* C10: isSupported and getFormatter give the same answer for an alias, for
\* any letter-casing of it, and for its canonical name.
C10_AliasCaseSameBinding ==
  \A p \in AliasPairs : \A v \in Casings(p[1]) \cup Casings(p[2]) :
    /\ isSupported(v) = isSupported(p[2])
    /\ getFormatter(v) = getFormatter(p[2])

\* An upper-case alias has been looked up and resolved to a bound backend.
C10_Witness ==
  /\ lastLookup.language = ToUpperCase(S_js)
  /\ lastLookup.supported
  /\ lastLookup.formatter = getFormatter(S_javascript)
  /\ lastLookup.formatter # Null

(***************************************************************************)
(* convertSettings of both background scripts applied to one request: the  *)
(* user's settings of a format message, and the message's language.        *)
(***************************************************************************)

\* The settings objects a message may carry: every field absent or set.
UserSettings ==
  [indentSize : {None, Some(NumberValue(2)), Some(NumberValue(8)), Some(StringValue(S_tab))},
   lineWrap : {None, Some(100)},
   useTabs : {None, Some(TRUE), Some(FALSE)},
   singleQuote : {None, Some(FALSE)},
   semi : {None, Some(FALSE)},
   trailingComma : {None, Some(S_none)}]

\* Languages with LANGUAGE_DEFAULTS (indentSize 4; useTabs true) and without,
\* and a second spelling of one of them, which validateFormatMessage accepts
\* (it tests language.toLowerCase()) and passes on as it is.
SettingsLanguages == {S_python, Capitalize(S_python), S_go, S_cobol}

InitSettings ==
  /\ InitDefaultRegistry
  /\ IdleBackground
  /\ IdleKeys
  /\ IdleFormat
  /\ IdlePrettier
  /\ IdleWasm
  /\ IdleUnits
  /\ setRequest \in [settings : UserSettings, language : SettingsLanguages]
  /\ setResults = [first |-> None, second |-> None]

\* convertSettings of the first background script
Convert1 ==
  /\ setResults.first = None
  /\ setResults' = [setResults EXCEPT
                      !.first = Some(convertSettings1(setRequest.settings,
                                                      setRequest.language))]
  /\ UNCHANGED <<setRequest, regVars, bgVars, keyVars, fmtVars, prettierVars, wasmVars, unitVars>>

\* convertSettings of the second background script
Convert2 ==
  /\ setResults.second = None
  /\ setResults' = [setResults EXCEPT
                      !.second = Some(convertSettings2(setRequest.settings,
                                                       setRequest.language))]
  /\ UNCHANGED <<setRequest, regVars, bgVars, keyVars, fmtVars, prettierVars, wasmVars, unitVars>>

NextSettings == Convert1 \/ Convert2

SpecSettings == InitSettings /\ [][NextSettings]_vars

\* langDefaults of the request in the given script.
LangDefaultsOf(version, language) ==
  LET table == IF version = 1 THEN LANGUAGE_DEFAULTS_1 ELSE LANGUAGE_DEFAULTS_2
  IN  IF language \in DOMAIN table THEN table[language] ELSE NoDefaults

\* The user's value if defined, otherwise the language default if defined,
\* otherwise the global default.
Resolved(user, langDefault, global) ==
  IF user # None THEN user[1] ELSE IF langDefault # None THEN langDefault[1] ELSE global

\* The settings fs follow the priority rule for every option (indentSize for
\* a numeric user value).
FollowsPriority(fs, user, d) ==
  /\ (user.indentSize = None \/ user.indentSize[1].type = "number") =>
       fs.indentSize = Resolved(IF user.indentSize = None THEN None
                                ELSE Some(user.indentSize[1].num), d.indentSize, 2)
  /\ fs.useTabs = Resolved(user.useTabs, d.useTabs, FALSE)
  /\ fs.lineWrap = Some(Resolved(user.lineWrap, d.lineWrap, 80))
  /\ fs.singleQuote = Resolved(user.singleQuote, d.singleQuote, TRUE)
  /\ fs.semi = Resolved(user.semi, d.semi, TRUE)
  /\ fs.trailingComma = Resolved(user.trailingComma, None, S_es5)

\* C17: every option of the settings convertSettings produces is the user's
\* value if defined, otherwise the language default if defined, otherwise the
\* global default.
C17_UserThenLanguageThenGlobal ==
  /\ setResults.first # None =>
       FollowsPriority(setResults.first[1], setRequest.settings,
                       LangDefaultsOf(1, setRequest.language))
  /\ setResults.second # None =>
       FollowsPriority(setResults.second[1], setRequest.settings,
                       LangDefaultsOf(2, setRequest.language))

\* C18: a user indentSize of "tab" yields settings that indent with tabs,
\* whatever the language.
C18_TabTokenMeansTabs ==
  (setRequest.settings.indentSize = Some(StringValue(S_tab))) =>
    /\ setResults.first # None => setResults.first[1].useTabs
    /\ setResults.second # None => setResults.second[1].useTabs

\* C34: two format requests that differ only in the letter case or alias
\* form of the language get identical FormatterSettings from convertSettings:
\* the settings computed for the request are those computed for every other
\* spelling of the same canonical language.
C34_SpellingsSameSettings ==
  \A other \in SettingsLanguages :
    normalizeLanguage(other) = normalizeLanguage(setRequest.language) =>
      /\ setResults.first # None =>
           setResults.first[1] = convertSettings1(setRequest.settings, other)
      /\ setResults.second # None =>
           setResults.second[1] = convertSettings2(setRequest.settings, other)

(***************************************************************************)
(* PrettierFormatter.format called by several callers at once.  The first  *)
(* file loads the core and all plugins in loadPrettierPlugins, the second  *)
(* loads the core in loadPrettier and the plugins of the language one by   *)
(* one in loadPlugin.  A call runs from one await to the next in one step. *)
(***************************************************************************)

PrettierLanguages == {S_json, S_javascript, S_css}

\* loadPluginsForLanguage: the plugin names of a language, in loading order.
PluginsFor(language) ==
  LET lang == ToLowerCase(language)
  IN  IF lang = S_javascript THEN <<"babel", "estree">>
      ELSE IF lang = S_typescript THEN <<"babel", "estree", "typescript">>
      ELSE IF lang = S_json THEN <<"babel">>
      ELSE IF lang \in {S_css, S_scss, S_less} THEN <<"postcss">>
      ELSE IF lang = S_html THEN <<"html">>
      ELSE IF lang = S_markdown THEN <<"markdown">>
      ELSE <<>>

\* The index of the first plugin from index i on that pluginCache lacks: the
\* plugin whose loader loadPlugin invokes next; 0 if there is none.
RECURSIVE NextMissing(_, _, _)
NextMissing(names, i, cache) ==
  IF i > Len(names) THEN 0
  ELSE IF names[i] \in cache THEN NextMissing(names, i + 1, cache)
  ELSE i

\* The loader of each name in names has been invoked once more.
Invoked(counts, names) ==
  [n \in DOMAIN counts |-> IF n \in names THEN counts[n] + 1 ELSE counts[n]]

InitPrettier ==
  /\ InitDefaultRegistry
  /\ IdleBackground
  /\ IdleKeys
  /\ IdleFormat
  /\ IdleSettings
  /\ IdleWasm
  /\ IdleUnits
  /\ pfVersion \in {1, 2}
  /\ prettier = "null"
  /\ prettierLoadPromise = "null"
  /\ pluginCache = {}
  /\ pfCalls = [c \in Callers |-> IdlePrettierCall]
  /\ loaderCalls = [n \in PluginNames \cup {PrettierCore} |-> 0]
  /\ pfLast = NoPrettierReturn

\* format of the first file up to its first await: loadPrettierPlugins
\* returns if prettier is set, and imports the core otherwise.
PrettierStart1(c, language) ==
  /\ pfVersion = 1
  /\ pfCalls[c].pc = "idle"
  /\ IF prettier = "loaded"
     THEN /\ pfCalls' = [pfCalls EXCEPT ![c] =
                           [pc |-> "format", language |-> language, core |-> "ready",
                            plugin |-> 0]]
          /\ UNCHANGED loaderCalls
     ELSE /\ pfCalls' = [pfCalls EXCEPT ![c] =
                           [pc |-> "core", language |-> language, core |-> "awaiting",
                            plugin |-> 0]]
          /\ loaderCalls' = Invoked(loaderCalls, {PrettierCore})
  /\ UNCHANGED <<pfVersion, prettier, prettierLoadPromise, pluginCache, pfLast>>
  /\ UNCHANGED <<regVars, bgVars, keyVars, fmtVars, setVars, wasmVars, unitVars>>

\* First file: the core import of caller c resolves; prettier is set and
\* the six plugin imports are started.
CoreLoaded1(c) ==
  /\ pfVersion = 1
  /\ pfCalls[c].pc = "core"
  /\ prettier' = "loaded"
  /\ loaderCalls' = Invoked(loaderCalls, PluginNames)
  /\ pfCalls' = [pfCalls EXCEPT ![c].pc = "plugins", ![c].core = "ready"]
  /\ UNCHANGED <<pfVersion, prettierLoadPromise, pluginCache, pfLast>>
  /\ UNCHANGED <<regVars, bgVars, keyVars, fmtVars, setVars, wasmVars, unitVars>>

\* First file: Promise.all of the plugin imports of caller c resolves; the
\* plugin variables are assigned.
PluginsLoaded1(c) ==
  /\ pfVersion = 1
  /\ pfCalls[c].pc = "plugins"
  /\ pluginCache' = PluginNames
  /\ pfCalls' = [pfCalls EXCEPT ![c].pc = "format"]
  /\ UNCHANGED <<pfVersion, prettier, prettierLoadPromise, loaderCalls, pfLast>>
  /\ UNCHANGED <<regVars, bgVars, keyVars, fmtVars, setVars, wasmVars, unitVars>>

\* format of the second file up to its awaits: loadPrettier returns the
\* core, awaits the load promise (which may have been rejected before the
\* call: "stale") or starts the import; loadPluginsForLanguage
\* calls loadPlugin, which invokes the loader of the first plugin that
\* pluginCache lacks.
PrettierStart2(c, language) ==
  /\ pfVersion = 2
  /\ pfCalls[c].pc = "idle"
  /\ LET imports == prettier # "loaded" /\ prettierLoadPromise = "null"
         missing == NextMissing(PluginsFor(language), 1, pluginCache)
     IN  /\ prettierLoadPromise' = IF imports THEN "pending" ELSE prettierLoadPromise
         /\ loaderCalls' =
              Invoked(loaderCalls,
                      (IF imports THEN {PrettierCore} ELSE {})
                      \cup (IF missing # 0 THEN {PluginsFor(language)[missing]} ELSE {}))
         /\ pfCalls' = [pfCalls EXCEPT ![c] =
                          [pc |-> "loading", language |-> language,
                           core |-> IF prettier = "loaded" THEN "ready"
                                    ELSE IF prettierLoadPromise = "rejected" THEN "stale"
                                    ELSE "awaiting",
                           plugin |-> missing]]
  /\ UNCHANGED <<pfVersion, prettier, pluginCache, pfLast>>
  /\ UNCHANGED <<regVars, bgVars, keyVars, fmtVars, setVars, wasmVars, unitVars>>

\* Second file: the core import resolves; prettier is set and every call
\* that awaits prettierLoadPromise goes on.
CoreLoaded2 ==
  /\ pfVersion = 2
  /\ prettierLoadPromise = "pending"
  /\ prettier' = "loaded"
  /\ prettierLoadPromise' = "settled"
  /\ pfCalls' = [c \in Callers |->
                   IF pfCalls[c].core = "awaiting"
                   THEN [pfCalls[c] EXCEPT !.core = "ready"] ELSE pfCalls[c]]
  /\ UNCHANGED <<pfVersion, pluginCache, loaderCalls, pfLast>>
  /\ UNCHANGED <<regVars, bgVars, keyVars, fmtVars, setVars, wasmVars, unitVars>>

\* Second file: the loader caller c awaits in loadPlugin resolves; the
\* plugin is put in pluginCache and the next plugin of the language is
\* loaded the same way.
PluginLoaded2(c) ==
  /\ pfVersion = 2
  /\ pfCalls[c].pc = "loading"
  /\ pfCalls[c].plugin # 0
  /\ LET names == PluginsFor(pfCalls[c].language)
         cache == pluginCache \cup {names[pfCalls[c].plugin]}
         missing == NextMissing(names, pfCalls[c].plugin + 1, cache)
     IN  /\ pluginCache' = cache
         /\ loaderCalls' =
              Invoked(loaderCalls, IF missing # 0 THEN {names[missing]} ELSE {})
         /\ pfCalls' = [pfCalls EXCEPT ![c].plugin = missing]
  /\ UNCHANGED <<pfVersion, prettier, prettierLoadPromise, pfLast>>
  /\ UNCHANGED <<regVars, bgVars, keyVars, fmtVars, setVars, wasmVars, unitVars>>

\* What prettier.format makes of the plugins handed to it: it formats
\* when the language has plugins and none of them is undefined.
PluginsThere(language, cache) ==
  /\ PluginsFor(language) # <<>>
  /\ \A i \in 1..Len(PluginsFor(language)) : PluginsFor(language)[i] \in cache

PrettierReturned(language, how, success) ==
  [language |-> language, how |-> how, success |-> success]

\* The loads caller c awaits have resolved: prettier.format is called with
\* the plugins of the language (the plugin variables of the first file as
\* they are, the loaded plugins of the second) and format returns.
PrettierReturn(c) ==
  /\ \/ pfCalls[c].pc = "format"
     \/ pfCalls[c].pc = "loading" /\ pfCalls[c].core = "ready" /\ pfCalls[c].plugin = 0
  /\ pfCalls' = [pfCalls EXCEPT ![c] = IdlePrettierCall]
  /\ pfLast' = PrettierReturned(pfCalls[c].language, "formatted",
                                PluginsThere(pfCalls[c].language, pluginCache))
  /\ UNCHANGED <<pfVersion, prettier, prettierLoadPromise, pluginCache, loaderCalls>>
  /\ UNCHANGED <<regVars, bgVars, keyVars, fmtVars, setVars, wasmVars, unitVars>>

NextPrettier ==
  \/ \E c \in Callers, language \in PrettierLanguages : PrettierStart1(c, language)
  \/ \E c \in Callers : CoreLoaded1(c)
  \/ \E c \in Callers : PluginsLoaded1(c)
  \/ \E c \in Callers, language \in PrettierLanguages : PrettierStart2(c, language)
  \/ CoreLoaded2
  \/ \E c \in Callers : PluginLoaded2(c)
  \/ \E c \in Callers : PrettierReturn(c)

SpecPrettier == InitPrettier /\ [][NextPrettier]_vars

\* C19: under any interleaving of concurrent format calls the loader of each
\* plugin name, and of the Prettier core, is invoked at most once.
C19_LoadersInvokedOnce ==
  \A n \in PluginNames \cup {PrettierCore} : loaderCalls[n] <= 1

(***************************************************************************)
(* The format function of a WASM backend (RuffFormatter and the others of  *)
(* wasm-formatters.ts) called by several callers at once: each call goes   *)
(* through loadWasmFormatter of wasm-loader.ts.                            *)
(***************************************************************************)

\* initAsync is called at most this often per module (a failed load is
\* tried again by every later request).
MaxInitAttempts == 3

InitWasm ==
  /\ InitDefaultRegistry
  /\ IdleBackground
  /\ IdleKeys
  /\ IdleFormat
  /\ IdleSettings
  /\ IdlePrettier
  /\ IdleUnits
  /\ wasmEnv \in [supported : BOOLEAN, initOk : BOOLEAN]
  /\ wasmCache = {}
  /\ wasmCalls = [c \in Callers |-> IdleWasmCall]
  /\ initAsyncCalls = [k \in WasmKeys |-> 0]
  /\ initResolved = {}

\* format up to its first await: without WebAssembly it returns a failure;
\* loadWasmFormatter returns the cached module, and then the module's
\* format function is called, or it starts the import of the wrapper file.
WasmStart(c, key) ==
  /\ wasmCalls[c].pc = "idle"
  /\ initAsyncCalls[key] < MaxInitAttempts
  /\ wasmCalls' = [wasmCalls EXCEPT ![c] =
                     IF ~wasmEnv.supported
                     THEN [pc |-> "idle", key |-> key, result |-> "failure"]
                     ELSE IF key \in wasmCache
                     THEN [pc |-> "idle", key |-> key, result |-> "success"]
                     ELSE [pc |-> "importing", key |-> key, result |-> "none"]]
  /\ UNCHANGED <<wasmEnv, wasmCache, initAsyncCalls, initResolved>>
  /\ UNCHANGED <<regVars, bgVars, keyVars, fmtVars, setVars, prettierVars, unitVars>>

\* await import(webJsUrl) resolves: module.initAsync(wasmUrl) is called.
WasmImported(c) ==
  /\ wasmCalls[c].pc = "importing"
  /\ initAsyncCalls' =
       [initAsyncCalls EXCEPT ![wasmCalls[c].key] = initAsyncCalls[wasmCalls[c].key] + 1]
  /\ wasmCalls' = [wasmCalls EXCEPT ![c].pc = "initializing"]
  /\ UNCHANGED <<wasmEnv, wasmCache, initResolved>>
  /\ UNCHANGED <<regVars, bgVars, keyVars, fmtVars, setVars, prettierVars, unitVars>>

\* await module.initAsync(wasmUrl) settles: if it resolved the module is
\* cached and returned, and the module's format function is called; if it
\* rejected loadWasmFormatter throws and format returns a failure.
WasmInitSettled(c) ==
  /\ wasmCalls[c].pc = "initializing"
  /\ IF wasmEnv.initOk
     THEN /\ wasmCache' = wasmCache \cup {wasmCalls[c].key}
          /\ initResolved' = initResolved \cup {wasmCalls[c].key}
          /\ wasmCalls' = [wasmCalls EXCEPT ![c].pc = "idle", ![c].result = "success"]
     ELSE /\ wasmCalls' = [wasmCalls EXCEPT ![c].pc = "idle", ![c].result = "failure"]
          /\ UNCHANGED <<wasmCache, initResolved>>
  /\ UNCHANGED <<wasmEnv, initAsyncCalls>>
  /\ UNCHANGED <<regVars, bgVars, keyVars, fmtVars, setVars, prettierVars, unitVars>>

NextWasm ==
  \/ \E c \in Callers, key \in WasmKeys : WasmStart(c, key)
  \/ \E c \in Callers : WasmImported(c)
  \/ \E c \in Callers : WasmInitSettled(c)

SpecWasm == InitWasm /\ [][NextWasm]_vars

\* C20: for each (wrapper file, binary file) pair initAsync is called at
\* most once, under any interleaving of concurrent format requests, and the
\* module's format function is called only after an initAsync of the module
\* has resolved.
C20_InitAsyncOnce ==
  /\ \A k \in WasmKeys : initAsyncCalls[k] <= 1
  /\ \A c \in Callers :
       wasmCalls[c].result = "success" => wasmCalls[c].key \in initResolved

(***************************************************************************)
(* Cache contents                                                          *)
(***************************************************************************)

\* The key formatCode computes for the request of a suspended call.
KeyOfCall(c) ==
  IF bgVersion = 1 THEN hashKey1(c.msg.code, c.msg.language, c.fs)
  ELSE hashKey2(c.msg.code, c.msg.language, c.fs)

\* In this step the backend call of slot s returns (BackendDone is the only
\* step that takes a call from "backend" to "idle", and it records its result).
BackendReturns(s) == calls[s].pc = "backend" /\ calls'[s].pc = "idle"

\* Entry e is what a suspended call stores in this step when
\* formatterRegistry.format returns it a successful result: the call's key
\* and the result's code.
StoredBySuccess(e) ==
  \E s \in Slots :
    /\ BackendReturns(s)
    /\ lastDone'.result.success
    /\ e.value = lastDone'.result.code
    /\ e.key = calls[s].key
    /\ \E env \in Environments :
         lastDone'.result = RegistryFormat(calls[s].msg.code, calls[s].msg.language, env)
    /\ e.key = KeyOfCall(calls[s])

\* A backend call returns a failed result in this step.
FailedResult == \E s \in Slots : BackendReturns(s) /\ ~lastDone'.result.success

\* C14: the format cache never stores failures: an entry appears or changes
\* only as the code of a successful result the registry returned for the
\* entry's key, and a failed result neither adds, changes nor evicts an entry.
C14_CacheHoldsSuccessesOnly ==
  [][\/ formatCache' = formatCache
     \/ /\ ~FailedResult
        /\ \A i \in 1..Len(formatCache') :
             \/ \E j \in 1..Len(formatCache) : formatCache[j] = formatCache'[i]
             \/ StoredBySuccess(formatCache'[i])]_vars

\* A backend call has just failed while the cache holds an entry.
C14_Witness ==
  /\ lastDone.valid
  /\ lastDone.backendCalls = 1
  /\ ~lastDone.result.success
  /\ handled.path = "format failure"
  /\ formatCache # <<>>

\* formatCache.has(key)
HasKey(cache, key) == \E i \in 1..Len(cache) : cache[i].key = key

\* C15: formatCache never holds more than MAX_CACHE_SIZE entries; storing a
\* new key in a cache of exactly MAX_CACHE_SIZE entries evicts exactly the
\* oldest entry, and formatCache.get then returns the new entry.
C15_CacheBounded ==
  /\ [](Len(formatCache) <= MAX_CACHE_SIZE)
  /\ [][\A s \in Slots :
          ( /\ BackendReturns(s)
            /\ lastDone'.result.success
            /\ Len(formatCache) = MAX_CACHE_SIZE
            /\ ~HasKey(formatCache, calls[s].key) )
          => /\ formatCache' = Append(Tail(formatCache),
                                      [key |-> calls[s].key,
                                       value |-> lastDone'.result.code])
             /\ CacheGet(formatCache', calls[s].key) = <<lastDone'.result.code>>]_vars

\* The request after the series has been stored in the full cache: the
\* first request's entry is gone, the second is the oldest.
C15_Witness ==
  /\ Len(formatCache) = MAX_CACHE_SIZE
  /\ formatCache[1].key = KeyOfMessage(bgVersion, SeriesMessage(2))
  /\ formatCache[MAX_CACHE_SIZE].key
       = KeyOfMessage(bgVersion, SeriesMessage(MAX_CACHE_SIZE + 1))
  /\ lastDone.valid /\ lastDone.backendCalls = 1
  /\ lastDone.code = SeriesMessage(MAX_CACHE_SIZE + 1).code

\* A call returns from the cache in this step.
CacheHitStep ==
  /\ lastDone' # lastDone
  /\ lastDone'.valid
  /\ lastDone'.result.success
  /\ lastDone'.backendCalls = 0

RejectionErrors ==
  {"Rate limit exceeded", "Parameter code cannot be empty",
   "Code size exceeds maximum limit", "Unsupported language",
   "Language is not supported"}

\* The listener answers the request d with one of these errors.
RejectedRequest(d) ==
  \E out \in {Listener(bgVersion, d[1], d[2], formatCache, rateLimitMap, now)} :
    /\ out.responses # <<>>
    /\ ~out.responses[1].success
    /\ out.responses[1].error \in RejectionErrors

\* The step leaves the cache as it is and starts no call: no slot changes
\* its position, and a call recorded as returned made no backend call.
NoDispatch ==
  /\ formatCache' = formatCache
  /\ \A s \in Slots : calls'[s].pc = calls[s].pc
  /\ lastDone' # lastDone => lastDone'.backendCalls = 0

\* C13: a format request that is rejected before dispatch (rate limited,
\* oversized, empty, unsupported language) leaves formatCache unchanged and
\* causes no backend format call, hence no plugin or WASM load.
C13_RejectionTouchesNothing ==
  [][NoDispatch \/ \A d \in RejectDeliveries :
                     ~(RejectedRequest(d) /\ Deliver(d[1], d[2]))]_vars

\* A request has been rejected as rate limited while the cache holds an
\* entry.
C13_Witness ==
  /\ handled.valid
  /\ handled.path = "rate limited"
  /\ handled.responses = <<RespondFailure("Rate limit exceeded")>>
  /\ formatCache # <<>>

(***************************************************************************)
(* Rate limiter claims                                                     *)
(***************************************************************************)

\* The callers the first background script rate limits: tabs with a truthy id.
LimitedCallers == {c \in DOMAIN windows : c # None /\ c[1] # 0}

\* C11: for one tab, exactly the first RATE_LIMIT_MAX requests of a window
\* are admitted and every further request of the window is rejected; a
\* request at the reset time belongs to the old window, a request strictly
\* after it opens a new one (first background script, which has the limiter).
C11_FirstTenPerWindow ==
  bgVersion = 1 =>
    \A c \in LimitedCallers :
      windows[c].admitted = Min(windows[c].requests, RATE_LIMIT_MAX)

\* The eleventh request of a window was rejected at the reset time itself.
C11_Witness ==
  /\ bgVersion = 1
  /\ Some(1) \in DOMAIN windows
  /\ windows[Some(1)].opened = 0
  /\ windows[Some(1)].requests = RATE_LIMIT_MAX + 1
  /\ windows[Some(1)].admitted = RATE_LIMIT_MAX
  /\ now = RATE_LIMIT_WINDOW
  /\ handled.path = "rate limited"

\* C12: for every sender, with or without a tab, no more than RATE_LIMIT_MAX
\* format requests are admitted within one window.
C12_EveryCallerLimited ==
  \A c \in DOMAIN windows : windows[c].admitted <= RATE_LIMIT_MAX


(***************************************************************************)
(* formatters/wasm-formatters.ts: the five WASM backends                   *)
(*                                                                         *)
(* Each format call asks isWasmSupported() first, then awaits              *)
(* loadWasmFormatter for its pair of files, then calls the module's format *)
(* function; the whole body is inside try/catch.  isWasmSupported() reads  *)
(* the globals at every call, so its answer is an input of each request.   *)
(* The import, initAsync and the module's format function are outside the  *)
(* repository: each of them succeeds or fails.                             *)
(***************************************************************************)

WasmBackends ==
  { [id |-> "ruff", js |-> "ruff_fmt_web.js", wasm |-> "ruff_fmt_bg.wasm",
     label |-> "Python"],
    [id |-> "gofmt", js |-> "gofmt_web.js", wasm |-> "gofmt.wasm",
     label |-> "Go"],
    [id |-> "sql-formatter", js |-> "sql_fmt_web.js", wasm |-> "sql_fmt_bg.wasm",
     label |-> "SQL"],
    [id |-> "yaml-formatter", js |-> "yamlfmt_web.js", wasm |-> "yamlfmt_bg.wasm",
     label |-> "YAML"],
    [id |-> "toml-formatter", js |-> "taplo_fmt_web.js", wasm |-> "taplo_fmt_bg.wasm",
     label |-> "TOML"] }

WasmBackend(id) == CHOOSE b \in WasmBackends : b.id = id

\* const cacheKey = `${webJsFile}:${wasmFile}`
WasmCacheKey(b) == b.js \o ":" \o b.wasm

\* The failure of format's own check: the message names the language.
UnsupportedFailure(b, code) ==
  Failure(code, "WebAssembly is not supported in this browser. "
                  \o b.label \o " formatting requires WASM.", <<>>)

\* A thrown value: an Error with its message, or something else.
Thrown(message) == [isError |-> TRUE, message |-> message]

NotAnError == [isError |-> FALSE, message |-> ""]

\* A format function without its catch block: the exception leaves the
\* async function and its promise rejects.
Uncaught(code, thrown, message) == [rejected |-> thrown]

\* The catch block every format function ends with:
\*   return {success: false, code,
\*           error: error instanceof Error ? error.message : message}
Caught(code, thrown, message) ==
  Failure(code, IF thrown.isError THEN thrown.message ELSE message, <<>>)

\* The catch block of the WASM backends.
CaughtFailure(b, code, thrown) ==
  Caught(code, thrown, b.label \o " formatting failed. Make sure WASM is enabled.")

\* loadWasmFormatter up to its first await: the cached module, the error it
\* throws without WebAssembly, or the import it starts.
loadWasmFormatter(b, supported, cache) ==
  IF WasmCacheKey(b) \in cache THEN [step |-> "module"]
  ELSE IF ~supported
  THEN [step |-> "throw", thrown |-> Thrown("WebAssembly is not supported in this browser")]
  ELSE [step |-> "import"]

\* The error loadWasmFormatter throws when the import or initAsync failed.
LoadFailed(b) ==
  Thrown("WASM formatter '" \o b.js \o "' failed to load. Check that wasm/"
           \o b.wasm \o " exists")

\* format without its own check: what loadWasmFormatter alone decides.
FormatterStartCallUnchecked(b, code, supported, cache) ==
  LET load == loadWasmFormatter(b, supported, cache)
      call == [pc |-> "idle", formatter |-> b.id, code |-> code,
               probe |-> supported, ops |-> {}, result |-> NoResult]
  IN  IF load.step = "module" THEN [call EXCEPT !.pc = "loaded"]
      ELSE IF load.step = "throw"
      THEN [call EXCEPT !.result = CaughtFailure(b, code, load.thrown)]
      ELSE [call EXCEPT !.pc = "importing", !.ops = {"import"}]

\* format up to its first await.
FormatterStartCall(b, code, supported, cache) ==
  IF ~supported
  THEN [pc |-> "idle", formatter |-> b.id, code |-> code, probe |-> supported,
        ops |-> {}, result |-> UnsupportedFailure(b, code)]
  ELSE FormatterStartCallUnchecked(b, code, supported, cache)

WasmCodes == {CodeA}

InitWasmFormat ==
  /\ InitDefaultRegistry
  /\ IdleBackground
  /\ IdleKeys
  /\ IdleFormat
  /\ IdleSettings
  /\ IdlePrettier
  /\ IdleWasm
  /\ IdleUnits

FormatterStart(c, b, code, supported) ==
  /\ wfCalls[c].pc = "idle"
  /\ wfCalls' = [wfCalls EXCEPT ![c] = FormatterStartCall(b, code, supported, wasmCache)]
  /\ UNCHANGED <<coreVars, wasmVars, wfRest>>

\* await import(webJsUrl) settles: initAsync is called, or the loader's
\* catch block throws its own error and format's catch block returns.
FormatterImported(c, ok) ==
  /\ wfCalls[c].pc = "importing"
  /\ wfCalls' =
       [wfCalls EXCEPT ![c] =
          IF ok THEN [@ EXCEPT !.pc = "initializing", !.ops = @ \cup {"initAsync"}]
          ELSE [@ EXCEPT !.pc = "idle",
                         !.result = CaughtFailure(WasmBackend(wfCalls[c].formatter),
                                                  wfCalls[c].code,
                                                  LoadFailed(WasmBackend(wfCalls[c].formatter)))]]
  /\ UNCHANGED <<coreVars, wasmVars, wfRest>>

\* await module.initAsync(wasmUrl) settles: the module is cached and
\* returned, or the loader throws and format returns a failure.
FormatterInitSettled(c, ok) ==
  /\ wfCalls[c].pc = "initializing"
  /\ wfCalls' =
       [wfCalls EXCEPT ![c] =
          IF ok THEN [@ EXCEPT !.pc = "loaded"]
          ELSE [@ EXCEPT !.pc = "idle",
                         !.result = CaughtFailure(WasmBackend(wfCalls[c].formatter),
                                                  wfCalls[c].code,
                                                  LoadFailed(WasmBackend(wfCalls[c].formatter)))]]
  /\ wasmCache' = IF ok THEN wasmCache \cup {WasmCacheKey(WasmBackend(wfCalls[c].formatter))}
                  ELSE wasmCache
  /\ UNCHANGED <<coreVars, wasmEnv, wasmCalls, initAsyncCalls, initResolved, wfRest>>

ModuleOutcomes == {"returns", "throws Error", "throws other"}

\* await loadWasmFormatter(...) resumes with the module: its format function
\* is called and returns the text or throws.
FormatterModuleCalled(c, outcome) ==
  /\ wfCalls[c].pc = "loaded"
  /\ wfCalls' =
       [wfCalls EXCEPT ![c] =
          [@ EXCEPT !.pc = "idle",
                    !.ops = @ \cup {"format"},
                    !.result =
                      IF outcome = "returns" THEN Success(LibraryText(wfCalls[c].code))
                      ELSE CaughtFailure(WasmBackend(wfCalls[c].formatter), wfCalls[c].code,
                                         IF outcome = "throws Error"
                                         THEN Thrown("format error") ELSE NotAnError)]]
  /\ UNCHANGED <<coreVars, wasmVars, wfRest>>

NextWasmFormat ==
  \/ \E c \in WasmCallers, b \in WasmBackends, code \in WasmCodes, supported \in BOOLEAN :
       FormatterStart(c, b, code, supported)
  \/ \E c \in WasmCallers, ok \in BOOLEAN : FormatterImported(c, ok)
  \/ \E c \in WasmCallers, ok \in BOOLEAN : FormatterInitSettled(c, ok)
  \/ \E c \in WasmCallers, outcome \in ModuleOutcomes : FormatterModuleCalled(c, outcome)

SpecWasmFormat == InitWasmFormat /\ [][NextWasmFormat]_vars

\* The format calls that have returned.
ReturnedWasmCalls == {c \in WasmCallers : wfCalls[c].pc = "idle" /\ wfCalls[c].formatter # ""}

\* C21: a format call of a WASM backend that found isWasmSupported() false
\* has returned a failure with the code it was given and the backend's
\* "not supported" message, and has not imported, initialised or called a
\* module, whether or not the module is cached.
C21_UnsupportedFailsFast ==
  \A c \in WasmCallers :
    (wfCalls[c].formatter # "" /\ ~wfCalls[c].probe) =>
      /\ wfCalls[c].pc = "idle"
      /\ wfCalls[c].ops = {}
      /\ wfCalls[c].result =
           UnsupportedFailure(WasmBackend(wfCalls[c].formatter), wfCalls[c].code)

\* A request without WebAssembly for a backend whose module is cached.
C21_Witness ==
  \E c \in WasmCallers :
    /\ wfCalls[c].formatter # ""
    /\ ~wfCalls[c].probe
    /\ WasmCacheKey(WasmBackend(wfCalls[c].formatter)) \in wasmCache


(***************************************************************************)
(* PrettierFormatter.format on a language without a plugin mapping         *)
(***************************************************************************)

\* A language for which the switch of loadPluginsForLanguage has no case.
UnmappedLanguages == {S_python}

AnyPrettierLanguages == PrettierLanguages \cup UnmappedLanguages

NextPrettierAny ==
  \/ \E c \in Callers, language \in AnyPrettierLanguages : PrettierStart1(c, language)
  \/ \E c \in Callers : CoreLoaded1(c)
  \/ \E c \in Callers : PluginsLoaded1(c)
  \/ \E c \in Callers, language \in AnyPrettierLanguages : PrettierStart2(c, language)
  \/ CoreLoaded2
  \/ \E c \in Callers : PluginLoaded2(c)
  \/ \E c \in Callers : PrettierReturn(c)

SpecPrettierAny == InitPrettier /\ [][NextPrettierAny]_vars

\* C22: a format call for a language without a plugin mapping attempts no
\* load: every step that invokes a loader (of the core or of a plugin) is a
\* step of a call whose language has a plugin mapping.
C22_UnmappedLoadsNothing ==
  [][loaderCalls' = loaderCalls \/
       \A c \in Callers :
         pfCalls'[c] # pfCalls[c] => PluginsFor(pfCalls'[c].language) # <<>>]_vars


(***************************************************************************)
(* formatters/fallback-formatter.ts                                        *)
(*                                                                         *)
(* A computation returns a value or throws: [threw, value, thrown].        *)
(***************************************************************************)

Return(value) == [threw |-> FALSE, value |-> value, thrown |-> NotAnError]

Throw(thrown) == [threw |-> TRUE, value |-> <<>>, thrown |-> thrown]

RECURSIVE RepeatTimes(_, _)
RepeatTimes(str, count) == IF count = 0 THEN <<>> ELSE str \o RepeatTimes(str, count - 1)

\* String.prototype.repeat: a negative count throws a RangeError.
Repeat(str, count) ==
  IF count < 0 THEN Throw(Thrown("Invalid count value")) ELSE Return(RepeatTimes(str, count))

StartsWith(str, pat) == Len(str) >= Len(pat) /\ SubSeq(str, 1, Len(pat)) = pat

\* str.replace(/pat/g, rep) for a literal pat.
RECURSIVE ReplaceAll(_, _, _)
ReplaceAll(str, pat, rep) ==
  IF str = <<>> THEN <<>>
  ELSE IF StartsWith(str, pat)
  THEN rep \o ReplaceAll(SubSeq(str, Len(pat) + 1, Len(str)), pat, rep)
  ELSE <<Head(str)>> \o ReplaceAll(Tail(str), pat, rep)

\* str.replace(/\s*pat\s*/g, rep), or /pat\s*/g without lead, for a literal
\* pat without white space: a match starts at the white space before pat and
\* takes the white space after it.
RECURSIVE ReplaceSpaced(_, _, _, _)
ReplaceSpaced(str, pat, rep, lead) ==
  IF str = <<>> THEN <<>>
  ELSE LET from == IF lead THEN TrimLeft(str) ELSE str
       IN  IF StartsWith(from, pat)
           THEN rep \o ReplaceSpaced(TrimLeft(SubSeq(from, Len(pat) + 1, Len(from))),
                                     pat, rep, lead)
           ELSE <<Head(str)>> \o ReplaceSpaced(Tail(str), pat, rep, lead)

\* str.split("\n")
RECURSIVE SplitLines(_)
SplitLines(str) ==
  IF \A i \in 1..Len(str) : str[i] # "\n" THEN <<str>>
  ELSE LET at == CHOOSE i \in 1..Len(str) :
                   str[i] = "\n" /\ \A j \in 1..(i - 1) : str[j] # "\n"
       IN  <<SubSeq(str, 1, at - 1)>> \o SplitLines(SubSeq(str, at + 1, Len(str)))

\* lines.join("\n")
RECURSIVE JoinLines(_)
JoinLines(lines) ==
  IF Len(lines) = 1 THEN lines[1]
  ELSE lines[1] \o <<"\n">> \o JoinLines(Tail(lines))

\* str.replace(/\n{3,}/g, "\n\n")
RECURSIVE CollapseBlankLines(_)
CollapseBlankLines(str) ==
  IF str = <<>> THEN <<>>
  ELSE IF StartsWith(str, <<"\n", "\n", "\n">>)
  THEN LET rest == CHOOSE k \in 3..Len(str) :
                     /\ \A j \in 1..k : str[j] = "\n"
                     /\ k = Len(str) \/ str[k + 1] # "\n"
       IN  <<"\n", "\n">> \o CollapseBlankLines(SubSeq(str, rest + 1, Len(str)))
  ELSE <<Head(str)>> \o CollapseBlankLines(Tail(str))

S_end == <<"e", "n", "d">>
S_then == <<"t", "h", "e", "n">>

\* The replacements of formatRust, formatRuby, formatLua, formatZig,
\* formatDart and formatGeneric before the split, and the split.
FallbackLines(code, language) ==
  LET lang == ToLowerCase(language)
      text == ReplaceAll(code, <<"\r", "\n">>, <<"\n">>)
      open(t) == ReplaceSpaced(t, <<"{">>, <<" ", "{", "\n">>, TRUE)
      close(t) == ReplaceSpaced(t, <<"}">>, <<"\n", "}", "\n">>, TRUE)
      semi(t) == ReplaceSpaced(t, <<";">>, <<";", "\n">>, FALSE)
      end(t) == ReplaceSpaced(t, S_end, <<"\n">> \o S_end \o <<"\n">>, TRUE)
      then(t) == ReplaceSpaced(t, S_then, <<" ">> \o S_then \o <<"\n">>, TRUE)
  IN  SplitLines(IF lang \in {S_rust, S_dart} THEN semi(close(open(text)))
                 ELSE IF lang = S_ruby THEN end(text)
                 ELSE IF lang = S_lua THEN end(then(text))
                 ELSE IF lang = S_zig THEN close(open(text))
                 ELSE text)

Openers == {"{", "[", "("}

Closers == {"}", "]", ")"}

\* (str.match(/[...]/g) || []).length
CountOf(str, chars) == Cardinality({i \in 1..Len(str) : str[i] \in chars})

\* First file, formatLinesWithIndentation: the lines from index i on, with
\* indentLevel as the lines before left it.
RECURSIVE formatLinesWithIndentation(_, _, _, _)
formatLinesWithIndentation(lines, i, indentLevel, indent) ==
  IF i > Len(lines) THEN <<>>
  ELSE LET trimmed == Trim(lines[i])
           currentIndent == IF trimmed # <<>> /\ trimmed[1] \in Closers
                            THEN IF indentLevel - 1 > 0 THEN indentLevel - 1 ELSE 0
                            ELSE indentLevel
           counted == indentLevel + CountOf(trimmed, Openers) - CountOf(trimmed, Closers)
           next == IF counted > 0 THEN counted ELSE 0
           prefix == Repeat(indent, currentIndent)
       IN  IF trimmed = <<>>
           THEN <<Return(<<>>)>> \o formatLinesWithIndentation(lines, i + 1, indentLevel, indent)
           ELSE <<IF prefix.threw THEN prefix ELSE Return(prefix.value \o trimmed)>>
                  \o formatLinesWithIndentation(lines, i + 1, next, indent)

RECURSIVE LevelBefore(_, _)
LevelBefore(lines, index) ==
  IF index = 1 THEN 0
  ELSE LevelBefore(lines, index - 1)
         + CountOf(Trim(lines[index - 1]), Openers)
         - CountOf(Trim(lines[index - 1]), Closers)

\* Second file, fixIndentation (index counts from 1 here).
fixIndentation(line, index, lines, indent) ==
  LET trimmed == Trim(line)
      before == LevelBefore(lines, index)
      indentLevel == IF trimmed # <<>> /\ trimmed[1] \in Closers
                     THEN IF before - 1 > 0 THEN before - 1 ELSE 0
                     ELSE before
      prefix == Repeat(indent, indentLevel)
  IN  IF trimmed = <<>> THEN Return(<<>>)
      ELSE IF prefix.threw THEN prefix ELSE Return(prefix.value \o trimmed)

\* Array.prototype.map with a callback that may throw: the lines, or the
\* first exception.
Mapped(results) ==
  IF \E i \in 1..Len(results) : results[i].threw
  THEN results[CHOOSE i \in 1..Len(results) :
                 results[i].threw /\ \A j \in 1..(i - 1) : ~results[j].threw]
  ELSE Return([i \in 1..Len(results) |-> results[i].value])

\* The body of the try block of FallbackFormatter.format.
FallbackTry(version, code, language, settings) ==
  LET indentSize == IF settings.indentSize # None THEN settings.indentSize[1] ELSE 2
      indentChar == IF settings.useTabs THEN <<"\t">> ELSE <<" ">>
      indent == Repeat(indentChar, indentSize)
      lines == FallbackLines(code, language)
      mapped == Mapped(IF version = 1
                       THEN formatLinesWithIndentation(lines, 1, 0, indent.value)
                       ELSE [i \in 1..Len(lines) |->
                               fixIndentation(lines[i], i, lines, indent.value)])
  IN  IF indent.threw THEN indent
      ELSE IF mapped.threw THEN mapped
      ELSE Return(Success(Trim(CollapseBlankLines(JoinLines(mapped.value)))))


(***************************************************************************)
(* One format call of js-beautify, Prettier or the fallback backend        *)
(*                                                                         *)
(* js_beautify, css_beautify, html_beautify, the imports of Prettier and   *)
(* prettier.format are outside the repository: the host of a request says  *)
(* whether the imports resolve and whether the library call returns,       *)
(* throws an Error or throws something else.                               *)
(***************************************************************************)

\* try { body } catch (error) { ... } of a format function.
TryCatch(body, code, message) ==
  IF body.threw THEN Caught(code, body.thrown, message) ELSE body.value

Hosts == [imports : BOOLEAN, library : ModuleOutcomes]

QuietHost == [imports |-> TRUE, library |-> "returns"]

LibraryCall(code, host) ==
  IF host.library = "returns" THEN Return(Success(LibraryText(code)))
  ELSE IF host.library = "throws Error" THEN Throw(Thrown("library error"))
  ELSE Throw(NotAnError)

\* The try block of JsBeautifyFormatter.format.
JsBeautifyTry(code, language, host) ==
  IF ToLowerCase(language) \in JsBeautifyLanguages THEN LibraryCall(code, host)
  ELSE Return(Failure(code, "not supported by js-beautify", language))

\* The try block of PrettierFormatter.format.  prettier.format throws when
\* no plugin provides the parser.
PrettierTry(version, code, language, host) ==
  IF ~host.imports THEN Throw(Thrown("Failed to fetch dynamically imported module"))
  ELSE IF PluginsFor(language) = <<>>
  THEN IF version = 1 THEN Throw(Thrown("Couldn't resolve parser"))
       ELSE Return(Failure(code, "No plugins for language", language))
  ELSE LibraryCall(code, host)

BackendRequest(backend, version, code, language, settings, host) ==
  [backend |-> backend, version |-> version, code |-> code, language |-> language,
   settings |-> settings, host |-> host]

MaxCodeLength == 3

FallbackAlphabet == {"a", "{", "}", "\n", " "}

\* Codes with the keywords, the semicolon and the line break the language
\* rules look for.
KeywordCodes ==
  { <<"a", " ", "e", "n", "d">>, <<"t", "h", "e", "n", "a">>,
    <<"a", ";", " ", "a">>, <<"a", "\r", "\n", "a">> }

FallbackCodes ==
  UNION {[1..n -> FallbackAlphabet] : n \in 0..MaxCodeLength} \cup KeywordCodes

FallbackLanguages == {S_rust, S_ruby, S_lua, S_zig, S_dart, S_cobol}

\* settings without indentSize and useTabs
PlainSettings == [indentSize |-> None, useTabs |-> FALSE]

FallbackSettings == {PlainSettings, [indentSize |-> Some(1), useTabs |-> TRUE]}

BackendRequests ==
  {BackendRequest("js-beautify", 1, CodeA, l, PlainSettings, h) :
     l \in {S_javascript, S_css, S_html, S_cobol}, h \in Hosts}
  \cup {BackendRequest("prettier", v, CodeA, l, PlainSettings, h) :
          v \in {1, 2}, l \in {S_javascript, S_python}, h \in Hosts}
  \cup {BackendRequest("fallback", r[1], r[2], r[3], r[4], QuietHost) :
          r \in {1, 2} \X FallbackCodes \X FallbackLanguages \X FallbackSettings}

\* How the promise of format(code, language, settings) settles.
FormatOutcome(req) ==
  IF req.backend = "js-beautify"
  THEN TryCatch(JsBeautifyTry(req.code, req.language, req.host), req.code,
                "Beautification failed")
  ELSE IF req.backend = "prettier"
  THEN TryCatch(PrettierTry(req.version, req.code, req.language, req.host), req.code,
                "Prettier formatting failed")
  ELSE TryCatch(FallbackTry(req.version, req.code, req.language, req.settings), req.code,
                "Fallback formatting failed")

\* A run applies one of these backends to one request, or exercises the
\* WASM backends.
InitBackends ==
  /\ InitDefaultRegistry
  /\ IdlePaste
  /\ IdleStart
  /\ IdleBackground
  /\ IdleKeys
  /\ IdleFormat
  /\ IdleSettings
  /\ IdlePrettier
  /\ IdleWasm
  /\ IdleWasmFormat
  /\ IdleRegistryCall
  /\ IdleTyping
  /\ IdleDetect
  /\ IdleLru
  /\ IdleContent
  /\ backendRequest \in {Some(req) : req \in BackendRequests} \cup {None}
  /\ backendOutcome = None

BackendCall ==
  /\ backendRequest # None
  /\ backendOutcome = None
  /\ backendOutcome' = Some(FormatOutcome(backendRequest[1]))
  /\ UNCHANGED <<coreVars, wasmVars, backendRequest, callRest>>

NextBackends ==
  \/ backendRequest = None /\ NextWasmFormat
  \/ BackendCall

SpecBackends == InitBackends /\ [][NextBackends]_vars

\* C24: FallbackFormatter.format reports success for every code, language
\* and settings.
C24_FallbackAlwaysSucceeds ==
  (backendOutcome # None /\ backendRequest[1].backend = "fallback")
    => backendOutcome[1].success


\* What a promise of format resolves to: a FormatResult.
IsFormatResult(r) == DOMAIN r = {"success", "code", "error"} /\ r.success \in BOOLEAN

\* C23: the promise of format never rejects: whatever throws while loading,
\* initialising or formatting, every call of js-beautify, Prettier, the
\* fallback backend and the five WASM backends ends with a FormatResult.
C23_FormatNeverRejects ==
  /\ backendOutcome # None => IsFormatResult(backendOutcome[1])
  /\ \A c \in WasmCallers : IsFormatResult(wfCalls[c].result)

\* A Prettier call whose import failed has returned.
C23_Witness ==
  /\ backendOutcome # None
  /\ backendRequest[1].backend = "prettier"
  /\ ~backendRequest[1].host.imports
  /\ IsFormatResult(backendOutcome[1])
  /\ ~backendOutcome[1].success


(***************************************************************************)
(* FormatterRegistry.format as a call: which backends it invokes           *)
(*                                                                         *)
(* The backend's format function is outside the registry: what it returns  *)
(* for the request is an input of the call.                                *)
(***************************************************************************)

\* The registry of the README (src/README.md:217-223): a language without
\* a backend goes to the fallback formatter.
RegistryCallWithFallback(fmts, lmap, code, language, returned) ==
  LET formatter == GetFormatterIn(fmts, lmap, language)
  IN  [code |-> code, language |-> language,
       invoked |-> <<[formatter |-> IF formatter = Null THEN FallbackFormatter
                                    ELSE formatter,
                      returned |-> returned]>>,
       result |-> returned]

\* FormatterRegistry.format(code, language, settings)
RegistryCall(fmts, lmap, code, language, returned) ==
  LET formatter == GetFormatterIn(fmts, lmap, language)
  IN  IF formatter = Null
      THEN [code |-> code, language |-> language, invoked |-> <<>>,
            result |-> Failure(code, "No formatter available for language", language)]
      ELSE [code |-> code, language |-> language,
            invoked |-> <<[formatter |-> formatter, returned |-> returned]>>,
            result |-> returned]

\* What a backend may return for a code.
BackendResults(code) ==
  {Success(LibraryText(code)), Success(code), Failure(code, "backend failed", <<>>)}

FormatViaRegistry(code, language, returned) ==
  /\ regCall' = RegistryCall(formatters, languageMap, code, language, returned)
  /\ UNCHANGED <<coreVars, wasmVars, regCallRest>>

NextRegistryFormat ==
  \/ \E f \in TestFormatters : Register(f)
  \/ \E l \in LookupLanguages, returned \in BackendResults(CodeA) :
       FormatViaRegistry(CodeA, l, returned)

SpecRegistryFormat == InitRegistry /\ [][NextRegistryFormat]_vars

\* The registry's own failure for a request.
NotFound(code, language) ==
  [success |-> FALSE, code |-> code,
   error |-> [kind |-> "No formatter available for language", detail |-> language]]

MaxSequence == 3

CodeB == <<"b">>

\* The documents a user types.
TypedDocs == {Blank, CodeA, CodeB}

\* What formatCode(code, language) resolves with.
FormatCodeResults(code) == {code, LibraryText(code)}

InitTyping ==
  /\ InitDefaultRegistry
  /\ IdlePaste
  /\ IdleStart
  /\ IdleBackground
  /\ IdleKeys
  /\ IdleFormat
  /\ IdleSettings
  /\ IdlePrettier
  /\ IdleWasm
  /\ IdleWasmFormat
  /\ IdleBackendCall
  /\ IdleRegistryCall
  /\ IdleDetect
  /\ IdleLru
  /\ IdleContent
  /\ formatSequence = 0
  /\ editorOpen = TRUE
  /\ editorDoc \in TypedDocs
  /\ debounceTimer = FALSE
  /\ pendingFormats = {}
  /\ currentEditorCode = editorDoc
  /\ replaceFormats = {}

\* The user changes the document: the update listener restarts the timeout.
Edit(doc) ==
  /\ editorOpen
  /\ doc # editorDoc
  /\ editorDoc' = doc
  /\ debounceTimer' = TRUE
  /\ UNCHANGED <<formatSequence, editorOpen, pendingFormats, replaceVars>>
  /\ UNCHANGED <<coreVars, wasmVars, typingRest>>

\* The editor is removed (codeMirrorEditor = null).
CloseEditor ==
  /\ editorOpen
  /\ editorOpen' = FALSE
  /\ UNCHANGED <<formatSequence, editorDoc, debounceTimer, pendingFormats, replaceVars>>
  /\ UNCHANGED <<coreVars, wasmVars, typingRest>>

\* The timeout expires: debouncedFormat's function runs up to its await.
TimerFires ==
  /\ debounceTimer
  /\ formatSequence < MaxSequence
  /\ debounceTimer' = FALSE
  /\ IF editorOpen /\ Trim(editorDoc) # <<>>
     THEN /\ formatSequence' = formatSequence + 1
          /\ pendingFormats' =
               pendingFormats \cup {[sequence |-> formatSequence + 1, code |-> editorDoc]}
     ELSE UNCHANGED <<formatSequence, pendingFormats>>
  /\ UNCHANGED <<editorOpen, editorDoc, replaceVars>>
  /\ UNCHANGED <<coreVars, wasmVars, typingRest>>

\* The response of any request is applied when the document is still the
\* code of the request: the sequence number is not compared.
ApplyUnsequenced(request, formatted) ==
  editorOpen /\ editorDoc = request.code /\ formatted # request.code

\* The test after the await: the response is applied.
Apply(request, formatted) ==
  /\ editorOpen
  /\ request.sequence = formatSequence
  /\ editorDoc = request.code
  /\ formatted # request.code

\* formatCode of one pending call resolves: the function resumes.
Resumes(request, formatted) ==
  /\ request \in pendingFormats
  /\ pendingFormats' = pendingFormats \ {request}
  /\ IF Apply(request, formatted)
     THEN /\ editorDoc' = formatted
          /\ debounceTimer' = TRUE
          /\ currentEditorCode' = formatted
     ELSE UNCHANGED <<editorDoc, debounceTimer, currentEditorCode>>
  /\ UNCHANGED <<formatSequence, editorOpen, replaceFormats>>
  /\ UNCHANGED <<coreVars, wasmVars, typingRest>>

NextTyping ==
  \/ \E doc \in TypedDocs : Edit(doc)
  \/ CloseEditor
  \/ TimerFires
  \/ \E request \in pendingFormats :
       \E formatted \in FormatCodeResults(request.code) : Resumes(request, formatted)

SpecTyping == InitTyping /\ [][NextTyping]_vars

\* C26: every request takes a sequence number above those of all earlier
\* requests (the pending ones never exceed the counter, the counter never
\* decreases, and a new request takes the counter's new, larger value), and
\* a resuming request changes the document only if its sequence number is
\* the last one issued.
C26_OnlyLatestResponseApplied ==
  /\ [](\A r \in pendingFormats : r.sequence <= formatSequence)
  /\ [][/\ formatSequence' >= formatSequence
        /\ \A r \in pendingFormats' \ pendingFormats :
             r.sequence = formatSequence' /\ r.sequence > formatSequence
        /\ \A r \in pendingFormats \ pendingFormats' :
             editorDoc' # editorDoc => r.sequence = formatSequence]_vars

\* An older request is pending while a newer one has been issued for the
\* same code, and the document is still that code.
C26_Witness ==
  \E r \in pendingFormats :
    /\ r.sequence < formatSequence
    /\ editorOpen
    /\ editorDoc = r.code


(***************************************************************************)
(* shared/utils.ts: LRUMap                                                 *)
(*                                                                         *)
(* A JavaScript Map keeps its entries in insertion order: the cache is the *)
(* sequence of its entries, oldest first.  Both copies of the class are    *)
(* the same text.                                                          *)
(***************************************************************************)

Entry(key, value) == [key |-> key, value |-> value]

\* Map.prototype.has, get and delete
MapHas(cache, key) == \E i \in 1..Len(cache) : cache[i].key = key

MapGet(cache, key) == cache[CHOOSE i \in 1..Len(cache) : cache[i].key = key].value

MapDelete(cache, key) == SelectSeq(cache, LAMBDA e : e.key # key)

\* LRUMap.get without the delete and re-insert: the entry keeps its place.
LRUGetInPlace(cache, key) ==
  IF ~MapHas(cache, key) THEN [cache |-> cache, returned |-> None]
  ELSE [cache |-> cache, returned |-> Some(MapGet(cache, key))]

\* LRUMap.get: the entry moves to the end; the value, or undefined.
LRUGet(cache, key) ==
  IF ~MapHas(cache, key) THEN [cache |-> cache, returned |-> None]
  ELSE [cache |-> Append(MapDelete(cache, key), Entry(key, MapGet(cache, key))),
        returned |-> Some(MapGet(cache, key))]

\* LRUMap.set with the capacity test after the insertion is counted
\* (this.cache.size > this.maxSize): one entry too many is kept.
LRUSetAbove(cache, maxSize, key, value) ==
  LET without == IF MapHas(cache, key) THEN MapDelete(cache, key) ELSE cache
      room == IF Len(without) > maxSize /\ without # <<>> THEN Tail(without) ELSE without
  IN  Append(room, Entry(key, value))

\* LRUMap.set: a present key is deleted, the oldest entry is evicted at
\* capacity (keys().next().value is undefined only for an empty map), and
\* the entry is appended.
LRUSet(cache, maxSize, key, value) ==
  LET without == IF MapHas(cache, key) THEN MapDelete(cache, key) ELSE cache
      room == IF Len(without) >= maxSize /\ without # <<>> THEN Tail(without) ELSE without
  IN  Append(room, Entry(key, value))

MaxLruSize == 2

LruKeys == {"a", "b", "c"}

LruValues == {1, 2}

InitLru ==
  /\ InitDefaultRegistry
  /\ IdlePaste
  /\ IdleStart
  /\ IdleBackground
  /\ IdleKeys
  /\ IdleFormat
  /\ IdleSettings
  /\ IdlePrettier
  /\ IdleWasm
  /\ IdleWasmFormat
  /\ IdleBackendCall
  /\ IdleRegistryCall
  /\ IdleDetect
  /\ IdleTyping
  /\ IdleContent
  /\ lruMaxSize \in 1..MaxLruSize
  /\ lruCache = <<>>
  /\ lruLast = NoLruCall
  /\ lruUses = <<>>

\* The history of uses: a key set, or read by a get that found it, becomes
\* the most recent one.
Used(uses, key) == Append(SelectSeq(uses, LAMBDA k : k # key), key)

LruGetCall(key) ==
  /\ lruCache' = LRUGet(lruCache, key).cache
  /\ lruUses' = IF MapHas(lruCache, key) THEN Used(lruUses, key) ELSE lruUses
  /\ lruLast' = [op |-> "get", key |-> key, value |-> 0,
                 returned |-> LRUGet(lruCache, key).returned]
  /\ UNCHANGED <<lruMaxSize, coreVars, wasmVars, lruRest>>

LruSetCall(key, value) ==
  /\ lruCache' = LRUSet(lruCache, lruMaxSize, key, value)
  /\ lruUses' = Used(lruUses, key)
  /\ lruLast' = [op |-> "set", key |-> key, value |-> value, returned |-> None]
  /\ UNCHANGED <<lruMaxSize, coreVars, wasmVars, lruRest>>

LruHasCall(key) ==
  /\ lruLast' = [op |-> "has", key |-> key, value |-> 0,
                 returned |-> Some(MapHas(lruCache, key))]
  /\ UNCHANGED <<lruMaxSize, lruCache, lruUses, coreVars, wasmVars, lruRest>>

LruClearCall ==
  /\ lruCache' = <<>>
  /\ lruUses' = <<>>
  /\ lruLast' = [op |-> "clear", key |-> "", value |-> 0, returned |-> None]
  /\ UNCHANGED <<lruMaxSize, coreVars, wasmVars, lruRest>>

LruSizeCall ==
  /\ lruLast' = [op |-> "size", key |-> "", value |-> 0, returned |-> Some(Len(lruCache))]
  /\ UNCHANGED <<lruMaxSize, lruCache, lruUses, coreVars, wasmVars, lruRest>>

NextLru ==
  \/ \E key \in LruKeys : LruGetCall(key)
  \/ \E key \in LruKeys, value \in LruValues : LruSetCall(key, value)
  \/ \E key \in LruKeys : LruHasCall(key)
  \/ LruClearCall
  \/ LruSizeCall

SpecLru == InitLru /\ [][NextLru]_vars

\* C30: size() never exceeds maxSize; size() is the number of distinct keys
\* that has and get find; size(), has and get have answered accordingly;
\* and right after set(key, value), get(key) finds value.
C30_LruBounded ==
  /\ Len(lruCache) <= lruMaxSize
  /\ Len(lruCache) = Cardinality({k \in LruKeys : LRUGet(lruCache, k).returned # None})
  /\ \A k \in LruKeys : MapHas(lruCache, k) <=> LRUGet(lruCache, k).returned # None
  /\ lruLast.op = "size" => lruLast.returned = Some(Len(lruCache))
  /\ lruLast.op = "set" => LRUGet(lruCache, lruLast.key).returned = Some(lruLast.value)
  /\ lruLast.op = "get" /\ lruLast.returned # None =>
       LRUGet(lruCache, lruLast.key).returned = lruLast.returned

\* The map is full and a set of a new key has just evicted the oldest entry.
C30_Witness ==
  /\ lruLast.op = "set"
  /\ Len(lruCache) = lruMaxSize
  /\ lruMaxSize > 1
  /\ \E k \in LruKeys : ~MapHas(lruCache, k)
  /\ lruCache[Len(lruCache)].key = lruLast.key

LruKeysOf(cache) == {cache[i].key : i \in 1..Len(cache)}

UsedAt(key) == CHOOSE i \in 1..Len(lruUses) : lruUses[i] = key

\* The key of the map whose last set or successful get is the oldest.
LeastRecentlyUsed ==
  CHOOSE k \in LruKeysOf(lruCache) :
    \A j \in LruKeysOf(lruCache) : UsedAt(k) <= UsedAt(j)

\* C31: a set of a new key on a full map removes exactly the key least
\* recently set or read by get (has does not count as a use); a set of a
\* present key removes nothing; a set on a map with room removes nothing;
\* get, has and size remove nothing.
C31_EvictsLeastRecentlyUsed ==
  [][/\ lruLast'.op = "set" =>
          LruKeysOf(lruCache') =
            IF lruLast'.key \in LruKeysOf(lruCache)
              THEN LruKeysOf(lruCache)
              ELSE IF Len(lruCache) >= lruMaxSize
                THEN (LruKeysOf(lruCache) \ {LeastRecentlyUsed}) \cup {lruLast'.key}
                ELSE LruKeysOf(lruCache) \cup {lruLast'.key}
     /\ lruLast'.op \in {"get", "has", "size"} =>
          LruKeysOf(lruCache') = LruKeysOf(lruCache)]_vars

\* A full map of two keys whose older insertion was read by get afterwards:
\* the set of a third key has removed the other one.
C31_Witness ==
  /\ lruLast.op = "set"
  /\ lruMaxSize = 2
  /\ Len(lruUses) = 3
  /\ Len(lruCache) = 2
  /\ lruCache[1].key = "a"
  /\ lruCache[2].key = "c"
  /\ lruUses = <<"b", "a", "c">>


(***************************************************************************)
(* content.ts: formatCode                                                  *)
(*                                                                         *)
(* formatCode answers from contentCache or sends the request to the        *)
(* background script; the callback of sendMessage resolves the promise.    *)
(* Whether the extension context is valid, whether sendMessage throws,     *)
(* whether runtime.lastError is set and what the response is are inputs.   *)
(***************************************************************************)

\* new LRUMap<string, string>(20)
ContentCacheSize == 20

ResolvedWith(value) == Some([settled |-> "resolved", value |-> value])

CallbackResponse(success, code, error) == Some([success |-> success, code |-> code, error |-> error])

\* The responses the callback is called with for a code: none (undefined),
\* success with a text, with the empty text or without a text, failure with
\* a message, without one or with an empty one.
ContentResponses(code) ==
  { None,
    CallbackResponse(TRUE, Some(LibraryText(code)), None),
    CallbackResponse(TRUE, Some(<<>>), None),
    CallbackResponse(TRUE, None, None),
    CallbackResponse(FALSE, Some(code), Some("Formatting failed")),
    CallbackResponse(FALSE, None, None),
    CallbackResponse(FALSE, Some(code), Some("")) }

\* response?.success && response.code
SuccessWithCode(response) ==
  response # None /\ response[1].success /\ response[1].code # None
    /\ response[1].code[1] # <<>>

\* A callback that takes the text of every response marked success.
CallbackValueTrusting(code, lastError, response) ==
  IF lastError THEN code
  ELSE IF response # None /\ response[1].success
  THEN IF response[1].code # None THEN response[1].code[1] ELSE Undefined
  ELSE code

\* The callback of sendMessage: what it resolves the promise with.
CallbackValue(code, lastError, response) ==
  IF lastError THEN code
  ELSE IF SuccessWithCode(response) THEN response[1].code[1]
  ELSE code

ContentCodes == {CodeA, CodeB, Blank}

ContentLanguages == {S_javascript}

InitContent ==
  /\ InitDefaultRegistry
  /\ IdlePaste
  /\ IdleStart
  /\ IdleBackground
  /\ IdleKeys
  /\ IdleFormat
  /\ IdleSettings
  /\ IdlePrettier
  /\ IdleWasm
  /\ IdleWasmFormat
  /\ IdleBackendCall
  /\ IdleRegistryCall
  /\ IdleTyping
  /\ IdleLru
  /\ IdleContent
  /\ IdleDetect

\* formatCode up to the return of sendMessage.
ContentFormatStart(c, code, language, contextValid, sendThrows) ==
  /\ fcCalls[c].pc = "idle"
  /\ LET got == LRUGet(contentCache, contentCacheKey(code, language))
         call == [pc |-> "idle", code |-> code, language |-> language, how |-> "none",
                  response |-> None, outcome |-> None]
     IN  /\ contentCache' = got.cache
         /\ fcCalls' =
              [fcCalls EXCEPT ![c] =
                 IF got.returned # None /\ got.returned[1] # <<>>
                 THEN [call EXCEPT !.how = "cached", !.outcome = ResolvedWith(got.returned[1])]
                 ELSE IF ~contextValid
                 THEN [call EXCEPT !.how = "invalidated", !.outcome = ResolvedWith(code)]
                 ELSE IF sendThrows
                 THEN [call EXCEPT !.how = "exception", !.outcome = ResolvedWith(code)]
                 ELSE [call EXCEPT !.pc = "sent"]]
  /\ UNCHANGED <<coreVars, wasmVars, contentRest>>

\* The callback of sendMessage runs.
ContentCallback(c, lastError, response) ==
  /\ fcCalls[c].pc = "sent"
  /\ contentCache' =
       IF ~lastError /\ SuccessWithCode(response)
       THEN LRUSet(contentCache, ContentCacheSize,
                   contentCacheKey(fcCalls[c].code, fcCalls[c].language),
                   response[1].code[1])
       ELSE contentCache
  /\ fcCalls' =
       [fcCalls EXCEPT ![c].pc = "idle",
                       ![c].how = IF lastError THEN "lastError" ELSE "response",
                       ![c].response = response,
                       ![c].outcome =
                         ResolvedWith(CallbackValue(fcCalls[c].code, lastError, response))]
  /\ UNCHANGED <<coreVars, wasmVars, contentRest>>

NextContent ==
  \/ \E c \in ContentCallers, code \in ContentCodes, language \in ContentLanguages,
        contextValid \in BOOLEAN, sendThrows \in BOOLEAN :
       ContentFormatStart(c, code, language, contextValid, sendThrows)
  \/ \E c \in ContentCallers : ContentCallback(c, TRUE, None)
  \/ \E c \in ContentCallers :
       \E response \in ContentResponses(fcCalls[c].code) : ContentCallback(c, FALSE, response)

SpecContent == InitContent /\ [][NextContent]_vars

\* C27: a formatCode promise that settled has resolved, never with the
\* empty text for a code that is not empty: with the text of the response
\* when the response is a success that carries a text, with a cached text on
\* a cache hit, and with the code it was given in every other case (context
\* invalidated, sendMessage threw, runtime.lastError, failure response,
\* response without success, text or message).
C27_FormatCodeDegradesToOriginal ==
  \A c \in ContentCallers :
    fcCalls[c].outcome # None =>
      LET call == fcCalls[c]
          value == call.outcome[1].value
      IN  /\ call.outcome[1].settled = "resolved"
          /\ call.code # <<>> => value # <<>> /\ value # Undefined
          /\ IF call.how = "cached" THEN value # <<>>
             ELSE IF call.how = "response" /\ SuccessWithCode(call.response)
             THEN value = call.response[1].code[1]
             ELSE value = call.code

\* A response marked success without a text has been answered with the
\* original code.
C27_Witness ==
  \E c \in ContentCallers :
    /\ fcCalls[c].outcome # None
    /\ fcCalls[c].how = "response"
    /\ fcCalls[c].response = CallbackResponse(TRUE, Some(<<>>), None)
    /\ fcCalls[c].outcome[1].value = CodeA

\* ------------------------------------------------------------------
\* Language detection: detectLanguage of content/detection.ts and
\* detectLanguage of content.ts, both applied to one content on one page.
\* A content is described by what the stages of the functions ask of it:
\* what JSON.parse makes of the trimmed text, what the page's URL splits
\* into, and which of the detection regular expressions match. The twelve
\* expressions of content.ts are, character for character, the first twelve
\* of DETECTION_PATTERNS, so one set of matching indices serves both.
\* ------------------------------------------------------------------

JsNull == "null"

DETECTION_PATTERNS ==
  << [lang |-> "html", weight |-> 10], [lang |-> "xml", weight |-> 10],
     [lang |-> "css", weight |-> 8], [lang |-> "typescript", weight |-> 6],
     [lang |-> "javascript", weight |-> 3], [lang |-> "python", weight |-> 5],
     [lang |-> "go", weight |-> 6], [lang |-> "rust", weight |-> 6],
     [lang |-> "sql", weight |-> 6], [lang |-> "yaml", weight |-> 3],
     [lang |-> "ruby", weight |-> 5], [lang |-> "toml", weight |-> 3],
     [lang |-> "php", weight |-> 5], [lang |-> "java", weight |-> 5],
     [lang |-> "c", weight |-> 4], [lang |-> "cpp", weight |-> 5],
     [lang |-> "csharp", weight |-> 5], [lang |-> "swift", weight |-> 5],
     [lang |-> "kotlin", weight |-> 5], [lang |-> "scala", weight |-> 5],
     [lang |-> "r", weight |-> 4], [lang |-> "dart", weight |-> 5],
     [lang |-> "bash", weight |-> 4], [lang |-> "markdown", weight |-> 3] >>

\* the local `patterns` of detectLanguage in content.ts
patterns ==
  << [lang |-> "html", weight |-> 10], [lang |-> "xml", weight |-> 10],
     [lang |-> "css", weight |-> 8], [lang |-> "typescript", weight |-> 6],
     [lang |-> "javascript", weight |-> 3], [lang |-> "python", weight |-> 5],
     [lang |-> "go", weight |-> 6], [lang |-> "rust", weight |-> 6],
     [lang |-> "sql", weight |-> 6], [lang |-> "yaml", weight |-> 3],
     [lang |-> "ruby", weight |-> 5], [lang |-> "toml", weight |-> 3] >>

\* The entries of EXTENSION_MAP for the extensions of the pages considered
KnownExtensions == {"py", "js"}

\* Object.prototype.constructor, which every object literal inherits
ObjectFunction == "function Object"

\* EXTENSION_MAP[ext]: a property read of an object literal, which finds the
\* map's own entries and what the literal inherits from Object.prototype
\* (of the lower-case names: constructor); undefined otherwise.
ExtensionLanguage(ext) ==
  CASE ext = "py" -> Some("python")
    [] ext = "js" -> Some("javascript")
    [] ext = "constructor" -> Some(ObjectFunction)
    [] OTHER -> None

\* The first loop of the pattern stage: langMatches and matchDetails, as
\* one list of [lang, weight, count] in the order the keys were inserted.
RECURSIVE TallyInto(_, _)
TallyInto(tally, p) ==
  IF tally = <<>>
    THEN << [lang |-> p.lang, weight |-> p.weight, count |-> 1] >>
    ELSE IF Head(tally).lang = p.lang
      THEN << [Head(tally) EXCEPT !.weight = @ + p.weight, !.count = @ + 1] >>
             \o Tail(tally)
      ELSE << Head(tally) >> \o TallyInto(Tail(tally), p)

RECURSIVE langMatches(_, _, _, _)
langMatches(list, matching, i, tally) ==
  IF i > Len(list)
    THEN tally
    ELSE langMatches(list, matching, i + 1,
                     IF i \in matching THEN TallyInto(tally, list[i])
                                       ELSE tally)

\* The second loop with a later language winning a tie.
RECURSIVE bestMatchLast(_, _, _)
bestMatchLast(entries, i, best) ==
  IF i > Len(entries)
    THEN best
    ELSE bestMatchLast(entries, i + 1,
           IF (entries[i].count >= 2 \/ entries[i].weight >= 8)
              /\ (best = None \/ entries[i].weight >= best[1].weight)
             THEN Some(entries[i])
             ELSE best)

\* The second loop of detection.ts: Object.entries(langMatches) in order.
RECURSIVE bestMatch(_, _, _)
bestMatch(entries, i, best) ==
  IF i > Len(entries)
    THEN best
    ELSE bestMatch(entries, i + 1,
           IF (entries[i].count >= 2 \/ entries[i].weight >= 8)
              /\ (best = None \/ entries[i].weight > best[1].weight)
             THEN Some(entries[i])
             ELSE best)

\* bestMatch?.lang ?? null
LangOrNull(best) == IF best = None THEN JsNull ELSE best[1].lang

PatternStage(matching) ==
  LangOrNull(bestMatch(langMatches(DETECTION_PATTERNS, matching, 1, <<>>),
                       1, None))

\* The single loop of content.ts: the heaviest matching pattern.
RECURSIVE bestPattern(_, _, _)
bestPattern(matching, i, best) ==
  IF i > Len(patterns)
    THEN best
    ELSE bestPattern(matching, i + 1,
           IF i \in matching /\ (best = None \/ patterns[i].weight > best[1].weight)
             THEN Some(patterns[i])
             ELSE best)

\* detectLanguage of content/detection.ts
DetectionDetectLanguage(input) ==
  IF input.json \in {"object", "array"}
    THEN "json"
    ELSE IF /\ input.url.pathExt # ""
            /\ input.url.pathExt # input.url.lastSegment
            /\ ExtensionLanguage(input.url.pathExt) # None
      THEN ExtensionLanguage(input.url.pathExt)[1]
      ELSE PatternStage(input.matching)

\* detectLanguage of content.ts
ContentDetectLanguage(input) ==
  IF input.json \in {"object", "array"}
    THEN "json"
    ELSE IF input.url.hrefExt # "" /\ ExtensionLanguage(input.url.hrefExt) # None
      THEN ExtensionLanguage(input.url.hrefExt)[1]
      ELSE LangOrNull(bestPattern(input.matching, 1, None))

MaxMatches == 2

PatternIds == 1..Len(DETECTION_PATTERNS)

RECURSIVE MatchingsUpTo(_)
MatchingsUpTo(k) ==
  IF k = 0
    THEN {{}}
    ELSE LET fewer == MatchingsUpTo(k - 1)
         IN  fewer \cup {m \cup {i} : m \in fewer, i \in PatternIds}

\* https://host/raw/main, https://host/raw/main.py and
\* https://host/raw/main.constructor, split as each function splits them
DetectUrls ==
  { [hrefExt |-> "https://host/raw/main", lastSegment |-> "main",
     pathExt |-> "main"],
    [hrefExt |-> "py", lastSegment |-> "main.py", pathExt |-> "py"],
    [hrefExt |-> "constructor", lastSegment |-> "main.constructor",
     pathExt |-> "constructor"] }

\* trimmed text that parses to an object, to an array, or is not JSON
JsonShapes == {"object", "array", "no"}

DetectInputs ==
  [json : JsonShapes, url : DetectUrls, matching : MatchingsUpTo(MaxMatches)]

InitDetect ==
  /\ InitDefaultRegistry
  /\ IdlePaste
  /\ IdleStart
  /\ IdleBackground
  /\ IdleKeys
  /\ IdleFormat
  /\ IdleSettings
  /\ IdlePrettier
  /\ IdleWasm
  /\ IdleWasmFormat
  /\ IdleBackendCall
  /\ IdleRegistryCall
  /\ IdleTyping
  /\ IdleLru
  /\ IdleContent
  /\ detectInput \in {Some(input) : input \in DetectInputs}
  /\ detectResults = NoDetection
  /\ codePage = NoCodePage

detectRest ==
  <<wfCalls, callVars, regCall, typingVars, lruVars, contentVars, pasteVars, startVars>>

DetectInDetection ==
  /\ detectInput # None
  /\ detectResults.detection = None
  /\ detectResults' =
       [detectResults EXCEPT !.detection = Some(DetectionDetectLanguage(detectInput[1]))]
  /\ UNCHANGED <<coreVars, wasmVars, detectRest, detectInput, codePage>>

DetectInContent ==
  /\ detectInput # None
  /\ detectResults.content = None
  /\ detectResults' =
       [detectResults EXCEPT !.content = Some(ContentDetectLanguage(detectInput[1]))]
  /\ UNCHANGED <<coreVars, wasmVars, detectRest, detectInput, codePage>>

NextDetect == DetectInDetection \/ DetectInContent

SpecDetect == InitDetect /\ [][NextDetect]_vars

\* Whether the pattern stage decided the answer of detection.ts.
ReachedPatternStage(input) ==
  /\ input.json = "no"
  /\ ~ (/\ input.url.pathExt # ""
        /\ input.url.pathExt # input.url.lastSegment
        /\ ExtensionLanguage(input.url.pathExt) # None)

MatchesOf(lang, matching) ==
  {i \in matching : DETECTION_PATTERNS[i].lang = lang}

RECURSIVE SummedWeight(_)
SummedWeight(ids) ==
  IF ids = {}
    THEN 0
    ELSE LET i == CHOOSE x \in ids : TRUE
         IN  DETECTION_PATTERNS[i].weight + SummedWeight(ids \ {i})

Qualifying(matching) ==
  {lang \in {DETECTION_PATTERNS[i].lang : i \in matching} :
     \/ Cardinality(MatchesOf(lang, matching)) >= 2
     \/ SummedWeight(MatchesOf(lang, matching)) >= 8}

FirstMatch(lang, matching) ==
  CHOOSE i \in MatchesOf(lang, matching) :
    \A j \in MatchesOf(lang, matching) : i <= j

\* C28: the pattern stage of detectLanguage in content/detection.ts sums
\* the weights of the matching patterns per language, accepts a language
\* only with two matching patterns or a sum of at least 8, returns the
\* accepted language with the largest sum (the earliest in pattern order
\* on a tie) and null when no language qualifies.
C28_PatternStageThreshold ==
  (/\ detectInput # None
   /\ detectResults.detection # None
   /\ ReachedPatternStage(detectInput[1]))
    => LET matching == detectInput[1].matching
           returned == detectResults.detection[1]
           sum(lang) == SummedWeight(MatchesOf(lang, matching))
       IN  IF Qualifying(matching) = {}
             THEN returned = JsNull
             ELSE /\ returned \in Qualifying(matching)
                  /\ \A other \in Qualifying(matching) :
                       \/ sum(returned) > sum(other)
                       \/ /\ sum(returned) = sum(other)
                          /\ FirstMatch(returned, matching)
                               <= FirstMatch(other, matching)

\* html and xml tie at 10 and html, the earlier pattern, is returned
C28_Witness ==
  /\ detectInput # None
  /\ ReachedPatternStage(detectInput[1])
  /\ detectInput[1].matching = {1, 2}
  /\ detectResults.detection = Some("html")

\* C29: for every content, detectLanguage of content.ts and detectLanguage
\* of content/detection.ts return the same language, or both return null.
C29_OneDetectionPolicy ==
  (/\ detectResults.content # None
   /\ detectResults.detection # None)
    => detectResults.content = detectResults.detection

\* The language the file extension of the page's URL is mapped to, if the
\* last path segment has an extension and EXTENSION_MAP has an entry for it.
UrlLanguage(url) ==
  IF url.pathExt # url.lastSegment /\ url.pathExt \in KnownExtensions
    THEN ExtensionLanguage(url.pathExt)
    ELSE None

\* C32: detectLanguage of content/detection.ts answers "json" for content
\* that parses as a JSON object or array, whatever the URL and the patterns;
\* otherwise the language of a known file extension of the URL, whatever
\* the patterns; otherwise what the pattern stage decides; and null for
\* blank content (which no pattern matches) on a URL without extension.
C32_StagesInOrder ==
  (detectInput # None /\ detectResults.detection # None)
    => LET input == detectInput[1]
           returned == detectResults.detection[1]
       IN  /\ returned =
                 IF input.json \in {"object", "array"} THEN "json"
                 ELSE IF UrlLanguage(input.url) # None THEN UrlLanguage(input.url)[1]
                 ELSE PatternStage(input.matching)
           /\ (/\ input.json = "no"
               /\ input.matching = {}
               /\ input.url.pathExt = input.url.lastSegment) => returned = JsNull

\* ------------------------------------------------------------------
\* content/detection.ts: appearsToBeCodePage
\*
\* A page is its URL, its pre and code elements in document order, and
\* what detectLanguage is asked about the collected text. An element is
\* described by what the function reads of it: whether it is a pre, a code
\* outside every pre or a code inside a pre, whether one of
\* LANGUAGE_SELECTORS selects it, the length of its trimmed text and
\* whether SHEBANG_PATTERN matches that text.
\* ------------------------------------------------------------------

MIN_CONTENT_LENGTH == 50

MIN_TOTAL_CONTENT_LENGTH == 200

SUBSTANTIAL_CONTENT_LENGTH == 100

\* the alternatives of codeExtensions in detectLanguageFromUrl
CodeExtensions ==
  {"js", "jsx", "ts", "tsx", "mjs", "cjs", "json", "py", "pyi", "go", "rs",
   "sql", "html", "htm", "xml", "css", "scss", "less", "md", "yml", "yaml",
   "toml", "rb", "lua", "zig", "dart"}

\* detectLanguageFromUrl: a language or null. LANGUAGES_BY_EXTENSION maps
\* every extension codeExtensions accepts.
detectLanguageFromUrl(url) ==
  IF url.hrefExt \in CodeExtensions THEN Some(url.hrefExt) ELSE None

Element(kind, selected, length, shebang) ==
  [kind |-> kind, selected |-> selected, length |-> length, shebang |-> shebang]

PageElements ==
  { Element("pre", FALSE, 99, FALSE),
    Element("pre", FALSE, 100, FALSE),
    Element("code", FALSE, 100, FALSE),
    Element("pre", TRUE, 100, FALSE),
    Element("pre code", TRUE, 101, FALSE),
    Element("pre", FALSE, 51, TRUE),
    Element("code", FALSE, 50, TRUE),
    Element("pre code", FALSE, 150, TRUE) }

MaxElements == 2

RECURSIVE ElementLists(_)
ElementLists(n) ==
  IF n = 0
    THEN {<<>>}
    ELSE LET shorter == ElementLists(n - 1)
         IN  shorter \cup {Append(list, e) : list \in shorter, e \in PageElements}

\* what detectLanguage is asked about the collected text
CollectedShapes ==
  [json : {"no", "object"}, matching : {{}, {1}, {5}}]

Pages ==
  [url : DetectUrls, elements : ElementLists(MaxElements), collected : CollectedShapes]

\* codeTextParts: the lengths of the texts pushed by the two loops, the pre
\* elements first.
CodeTextParts(elements) ==
  LET kept(kind) == SelectSeq(elements, LAMBDA e :
                      e.kind = kind /\ e.length > MIN_CONTENT_LENGTH)
  IN  kept("pre") \o kept("code")

RECURSIVE TotalLength(_)
TotalLength(parts) ==
  IF parts = <<>> THEN 0 ELSE Head(parts).length + TotalLength(Tail(parts))

\* codeTextParts.join("\n").length
JoinedLength(parts) ==
  IF parts = <<>> THEN 0 ELSE TotalLength(parts) + (Len(parts) - 1)

appearsToBeCodePage(page) ==
  LET parts == CodeTextParts(page.elements)
  IN  IF \E i \in 1..Len(page.elements) :
           /\ page.elements[i].selected
           /\ page.elements[i].length > SUBSTANTIAL_CONTENT_LENGTH
        THEN TRUE
      ELSE IF detectLanguageFromUrl(page.url) # None THEN TRUE
      ELSE IF \E i \in 1..Len(parts) : parts[i].shebang THEN TRUE
      ELSE IF JoinedLength(parts) < MIN_TOTAL_CONTENT_LENGTH THEN FALSE
      ELSE DetectionDetectLanguage(
             [json |-> page.collected.json, url |-> page.url,
              matching |-> page.collected.matching]) # JsNull

InitCodePage ==
  /\ InitDefaultRegistry
  /\ IdlePaste
  /\ IdleStart
  /\ IdleBackground
  /\ IdleKeys
  /\ IdleFormat
  /\ IdleSettings
  /\ IdlePrettier
  /\ IdleWasm
  /\ IdleWasmFormat
  /\ IdleBackendCall
  /\ IdleRegistryCall
  /\ IdleTyping
  /\ IdleLru
  /\ IdleContent
  /\ detectInput = None
  /\ detectResults = NoDetection
  /\ codePage \in {[page |-> Some(page), returned |-> None] : page \in Pages}

AppearsToBeCodePage ==
  /\ codePage.page # None
  /\ codePage.returned = None
  /\ codePage' = [codePage EXCEPT !.returned = Some(appearsToBeCodePage(codePage.page[1]))]
  /\ UNCHANGED <<coreVars, wasmVars, detectRest, detectInput, detectResults>>

NextCodePage == AppearsToBeCodePage

SpecCodePage == InitCodePage /\ [][NextCodePage]_vars

\* The candidate blocks: the pre elements and the code elements outside
\* every pre whose text is longer than 50 characters.
CandidateBlocks(page) ==
  {i \in 1..Len(page.elements) :
     /\ page.elements[i].kind \in {"pre", "code"}
     /\ page.elements[i].length > 50}

RECURSIVE CharactersOf(_, _)
CharactersOf(page, blocks) ==
  IF blocks = {}
    THEN 0
    ELSE LET i == CHOOSE x \in blocks : TRUE
         IN  page.elements[i].length + CharactersOf(page, blocks \ {i})

\* C33: appearsToBeCodePage returns true if an element with a language
\* class has more than 100 characters of text, or the URL has a code file
\* extension, or a candidate block starts with a shebang; otherwise false
\* when the candidate blocks total fewer than 200 characters; otherwise
\* true exactly when detectLanguage finds a language in the collected text.
C33_CodePageDecision ==
  (codePage.page # None /\ codePage.returned # None)
    => LET page == codePage.page[1]
       IN  codePage.returned[1] =
             IF \E i \in 1..Len(page.elements) :
                  page.elements[i].selected /\ page.elements[i].length > 100
               THEN TRUE
             ELSE IF page.url.hrefExt \in CodeExtensions THEN TRUE
             ELSE IF \E i \in CandidateBlocks(page) : page.elements[i].shebang
               THEN TRUE
             ELSE IF CharactersOf(page, CandidateBlocks(page)) < 200 THEN FALSE
             ELSE DetectionDetectLanguage(
                    [json |-> page.collected.json, url |-> page.url,
                     matching |-> page.collected.matching]) # JsNull

\* ------------------------------------------------------------------
\* Two formatCode calls for one uncached key. Both calls have missed the
\* cache and are suspended at formatterRegistry.format; the background
\* script is taken up at the moment the first of them has returned and
\* stored its result, with the second still suspended. The cache before
\* the two calls is that of InitCache.
\* ------------------------------------------------------------------

\* the request both calls carry: the one after the series
RaceMessage == SeriesMessage(MAX_CACHE_SIZE + 1)

RaceResult == FallbackFormat(RaceMessage.code, RaceMessage.language)

\* the second call, suspended at the backend
RaceCall(version) ==
  [pc |-> "backend", msg |-> RaceMessage,
   fs |-> IF version = 1
          THEN convertSettings1(RaceMessage.settings, RaceMessage.language)
          ELSE convertSettings2(RaceMessage.settings, RaceMessage.language),
   key |-> KeyOfMessage(version, RaceMessage),
   follows |-> FALSE, predText |-> <<>>]

InitCacheRace ==
  /\ InitDefaultRegistry
  /\ IdleExt
  /\ bgVersion \in {1, 2}
  /\ formatCache \in
       {CacheStore(bgVersion, Filled(bgVersion, n),
                   KeyOfMessage(bgVersion, RaceMessage), RaceResult.code) :
          n \in {0, MAX_CACHE_SIZE - 1, MAX_CACHE_SIZE}}
  /\ rateLimitMap = <<>>
  /\ now = 0
  /\ calls = [s \in Slots |-> IF s = 1 THEN RaceCall(bgVersion) ELSE IdleCall]
  /\ handled = HandledMessage(RaceMessage, "format success",
                              <<ThenResponse(RaceResult)>>, FALSE)
  /\ lastDone = DoneCall(RaceMessage, RaceResult, 1, FALSE, <<>>)
  /\ windows = <<>>
  /\ IdleKeys
  /\ IdleFormat

SpecCacheRace == InitCacheRace /\ [][NextCache]_vars

\* C35: when the second of two concurrent calls for one key completes with
\* success, the key being in the cache already, the cache afterwards holds
\* exactly one entry for the key and no other entry has been evicted, also
\* when the cache is at capacity.
C35_RewriteEvictsNothing ==
  [][\A s \in Slots :
       ( /\ BackendReturns(s)
         /\ lastDone'.result.success
         /\ HasKey(formatCache, calls[s].key) )
       => /\ Cardinality({i \in 1..Len(formatCache') :
                            formatCache'[i].key = calls[s].key}) = 1
          /\ \A i \in 1..Len(formatCache) :
               HasKey(formatCache', formatCache[i].key)]_vars

\* ------------------------------------------------------------------
\* PrettierFormatter.format when imports fail: a rejected import leaves
\* format through its catch block with a failure. The plugin imports a
\* call has started are not followed after the call has returned.
\* ------------------------------------------------------------------

\* Only the first invocations of a loader give an import that rejects.
MaxFailingImports == 1

MayReject(name) == loaderCalls[name] <= MaxFailingImports

PrettierFails(c, how) ==
  /\ pfCalls' = [pfCalls EXCEPT ![c] = IdlePrettierCall]
  /\ pfLast' = PrettierReturned(pfCalls[c].language, how, FALSE)

\* First file: the core import of caller c rejects; prettier stays unset.
CoreFailed1(c) ==
  /\ pfVersion = 1
  /\ pfCalls[c].pc = "core"
  /\ MayReject(PrettierCore)
  /\ PrettierFails(c, "import rejected")
  /\ UNCHANGED <<pfVersion, prettier, prettierLoadPromise, pluginCache, loaderCalls>>
  /\ UNCHANGED <<regVars, bgVars, keyVars, fmtVars, setVars, wasmVars, unitVars>>

\* First file: Promise.all of the plugin imports of caller c rejects; the
\* plugin variables stay unassigned while prettier is set.
PluginsFailed1(c) ==
  /\ pfVersion = 1
  /\ pfCalls[c].pc = "plugins"
  /\ \E name \in PluginNames : MayReject(name)
  /\ PrettierFails(c, "import rejected")
  /\ UNCHANGED <<pfVersion, prettier, prettierLoadPromise, pluginCache, loaderCalls>>
  /\ UNCHANGED <<regVars, bgVars, keyVars, fmtVars, setVars, wasmVars, unitVars>>

\* Second file: the core import rejects; prettierLoadPromise stays, now
\* rejected, and every call that awaits it is rejected.
CoreFailed2 ==
  /\ pfVersion = 2
  /\ prettierLoadPromise = "pending"
  /\ MayReject(PrettierCore)
  /\ prettierLoadPromise' = "rejected"
  /\ pfCalls' = [c \in Callers |->
                   IF pfCalls[c].core = "awaiting"
                   THEN [pfCalls[c] EXCEPT !.core = "rejected"] ELSE pfCalls[c]]
  /\ UNCHANGED <<pfVersion, prettier, pluginCache, loaderCalls, pfLast>>
  /\ UNCHANGED <<regVars, bgVars, keyVars, fmtVars, setVars, wasmVars, unitVars>>

\* Second file: the loader caller c awaits in loadPlugin rejects; nothing
\* is put in pluginCache.
PluginFailed2(c) ==
  /\ pfVersion = 2
  /\ pfCalls[c].pc = "loading"
  /\ pfCalls[c].plugin # 0
  /\ MayReject(PluginsFor(pfCalls[c].language)[pfCalls[c].plugin])
  /\ PrettierFails(c, "import rejected")
  /\ UNCHANGED <<pfVersion, prettier, prettierLoadPromise, pluginCache, loaderCalls>>
  /\ UNCHANGED <<regVars, bgVars, keyVars, fmtVars, setVars, wasmVars, unitVars>>

\* Second file: Promise.all of caller c is rejected by loadPrettier, whose
\* import rejected during the call or whose promise was rejected before it.
PrettierRejected2(c) ==
  /\ pfVersion = 2
  /\ pfCalls[c].pc = "loading"
  /\ pfCalls[c].core \in {"rejected", "stale"}
  /\ PrettierFails(c, IF pfCalls[c].core = "rejected" THEN "import rejected"
                      ELSE "load promise rejected")
  /\ UNCHANGED <<pfVersion, prettier, prettierLoadPromise, pluginCache, loaderCalls>>
  /\ UNCHANGED <<regVars, bgVars, keyVars, fmtVars, setVars, wasmVars, unitVars>>

\* Format calls start while no loader has been invoked more than once
\* after its last import that may reject.
MayStart ==
  \A name \in PluginNames \cup {PrettierCore} :
    loaderCalls[name] <= MaxFailingImports + 1

NextPrettierRetry ==
  \/ /\ MayStart
     /\ \E c \in Callers, language \in PrettierLanguages :
          PrettierStart1(c, language) \/ PrettierStart2(c, language)
  \/ \E c \in Callers : CoreLoaded1(c)
  \/ \E c \in Callers : PluginsLoaded1(c)
  \/ CoreLoaded2
  \/ \E c \in Callers : PluginLoaded2(c)
  \/ \E c \in Callers : PrettierReturn(c)
  \/ \E c \in Callers : CoreFailed1(c)
  \/ \E c \in Callers : PluginsFailed1(c)
  \/ CoreFailed2
  \/ \E c \in Callers : PluginFailed2(c)
  \/ \E c \in Callers : PrettierRejected2(c)

SpecPrettierRetry == InitPrettier /\ [][NextPrettierRetry]_vars

\* no other format call is in flight
PrettierAlone(c) == \A d \in Callers \ {c} : pfCalls[d].pc = "idle"

\* C36: a failed load is not remembered. A format call that starts while no
\* other is in flight attempts the loads that are missing: the core import
\* if the core is not loaded and no import of it is pending, and otherwise an
\* import of a plugin of its language that is not loaded. And a call that
\* returns while no other is in flight, none of whose imports was rejected
\* during the call, succeeds.
C36_FailedLoadRetried ==
  [][\A c \in Callers :
       LET language == pfCalls'[c].language
           names == PluginsFor(language)
       IN  /\ ( /\ pfCalls[c].pc = "idle" /\ pfCalls'[c].pc # "idle"
                /\ PrettierAlone(c)
                /\ names # <<>> )
              => /\ (prettier # "loaded" /\ prettierLoadPromise # "pending")
                      => loaderCalls'[PrettierCore] > loaderCalls[PrettierCore]
                 /\ (prettier = "loaded" /\ ~PluginsThere(language, pluginCache))
                      => \E i \in 1..Len(names) : loaderCalls'[names[i]] > loaderCalls[names[i]]
           /\ ( /\ pfCalls[c].pc # "idle" /\ pfCalls'[c].pc = "idle"
                /\ PrettierAlone(c)
                /\ PluginsFor(pfCalls[c].language) # <<>>
                /\ pfLast'.how # "import rejected" )
              => pfLast'.success]_vars

\* ------------------------------------------------------------------
\* content.ts: the other two paths that replace the editor document with
\* a format result, the Ctrl+Shift+F shortcut and the loading of a file,
\* beside format-on-type.
\* ------------------------------------------------------------------

\* the format calls of the two paths that may await at once
MaxReplacing == 1

\* the text of a file the user opens
FileCodes == {CodeB}

\* the longest text the shortcut is pressed on
MaxShortcutLength == 2

\* keydown of Ctrl+Shift+F: formatCode(currentEditorCode, ...) is called.
Shortcut ==
  /\ currentEditorCode # <<>>
  /\ Len(currentEditorCode) <= MaxShortcutLength
  /\ Cardinality(replaceFormats) < MaxReplacing
  /\ replaceFormats' = replaceFormats \cup {[path |-> "shortcut", code |-> currentEditorCode]}
  /\ UNCHANGED <<formatSequence, editorOpen, editorDoc, debounceTimer, pendingFormats,
                 currentEditorCode>>
  /\ UNCHANGED <<coreVars, wasmVars, typingRest>>

\* handleFileSelection up to the await of formatCode(firstLoad.code, ...).
FileSelected(code) ==
  /\ Cardinality(replaceFormats) < MaxReplacing
  /\ replaceFormats' = replaceFormats \cup {[path |-> "file", code |-> code]}
  /\ UNCHANGED <<formatSequence, editorOpen, editorDoc, debounceTimer, pendingFormats,
                 currentEditorCode>>
  /\ UNCHANGED <<coreVars, wasmVars, typingRest>>

\* formatCode of one of these calls resolves: the document is replaced if
\* there is an editor; the dispatch makes the update listener restart the
\* timeout. The shortcut sets currentEditorCode with the document, the file
\* path sets it in any case.
Replaces(request, formatted) ==
  /\ request \in replaceFormats
  /\ replaceFormats' = replaceFormats \ {request}
  /\ IF editorOpen
     THEN editorDoc' = formatted /\ debounceTimer' = TRUE
     ELSE UNCHANGED <<editorDoc, debounceTimer>>
  /\ currentEditorCode' =
       IF editorOpen \/ request.path = "file" THEN formatted ELSE currentEditorCode
  /\ UNCHANGED <<formatSequence, editorOpen, pendingFormats>>
  /\ UNCHANGED <<coreVars, wasmVars, typingRest>>

NextEditor ==
  \/ NextTyping
  \/ Shortcut
  \/ \E code \in FileCodes : FileSelected(code)
  \/ \E request \in replaceFormats :
       \E formatted \in FormatCodeResults(request.code) : Replaces(request, formatted)

SpecEditor == InitTyping /\ [][NextEditor]_vars

\* C37: every step in which a format call resumes and the document changes
\* is a step of a call whose code the editor held when the call resumed:
\* no format result is written over text that differs from the text sent.
C37_NoResultOverChangedText ==
  [][\A r \in (pendingFormats \ pendingFormats') \cup (replaceFormats \ replaceFormats') :
       editorDoc' # editorDoc => editorDoc = r.code]_vars

(***************************************************************************)
(* content.ts: setupFormatOnPaste                                          *)
(*                                                                         *)
(* One listener of the document's paste events with the flag isProcessing  *)
(* in its closure. What is pasted, the element it is pasted into, the      *)
(* stored minimum length, what formatCode resolves with and whether the    *)
(* element still has the focus then are inputs. pasteEvents records, for   *)
(* each event, whether its default action was prevented and the texts      *)
(* that insertTextAtCursor wrote into the element.                         *)
(***************************************************************************)

\* the paste events of a run
MaxPastes == 3

\* currentSettings.formatOnPasteMinLength ?? 5
DefaultPasteMinLength == 5

\* The elements a paste is dispatched on: a textarea, a text input, an
\* input of a type the selection API does not apply to (email, number), and
\* an element that is no text control. For the third, selectionStart and
\* selectionEnd read as null and assigning them throws InvalidStateError.
PasteTargets ==
  { [tagName |-> "TEXTAREA", selection |-> TRUE],
    [tagName |-> "INPUT", selection |-> TRUE],
    [tagName |-> "INPUT", selection |-> FALSE],
    [tagName |-> "DIV", selection |-> FALSE] }

\* the page the listener runs on: https://host/raw/main
PasteUrl == [hrefExt |-> "https://host/raw/main", lastSegment |-> "main", pathExt |-> "main"]

\* What the clipboard holds: no text, a JSON object shorter than five
\* characters, five characters that match no pattern, that match the python
\* pattern, and a JSON object of five characters.
Clipboards ==
  { [text |-> <<>>, json |-> "no", matching |-> {}],
    [text |-> <<"{", "}">>, json |-> "object", matching |-> {}],
    [text |-> RepeatTimes(<<"a">>, 5), json |-> "no", matching |-> {}],
    [text |-> RepeatTimes(<<"b">>, 5), json |-> "no", matching |-> {6}],
    [text |-> <<"{", " ", " ", " ", "}">>, json |-> "object", matching |-> {}] }

\* the stored formatOnPasteMinLength, if any
PasteMinLengths == {None, Some(2)}

formattable ==
  {"javascript", "typescript", "json", "css", "scss", "html", "xml", "python", "go",
   "rust", "sql", "yaml", "toml", "ruby", "lua", "zig", "dart"}

\* The listener up to its first await: TRUE if it calls preventDefault.
Intercepts(processing, target, clipboard, stored) ==
  /\ ~processing
  /\ target.tagName \in {"TEXTAREA", "INPUT"}
  /\ clipboard.text # <<>>
  /\ Len(clipboard.text) >= (IF stored = None THEN DefaultPasteMinLength ELSE stored[1])
  /\ LET detectedLang ==
           ContentDetectLanguage([json |-> clipboard.json, url |-> PasteUrl,
                                  matching |-> clipboard.matching])
     IN  detectedLang # JsNull /\ detectedLang \in formattable

\* insertTextAtCursor: the value is assigned, then the selection; the
\* assignment of the selection throws on an element without selection.
insertTextAtCursor(written, input, text) ==
  [written |-> Append(written, text), throws |-> ~input.selection]

\* The listener after the await: the try, catch and finally blocks.
AfterFormatCode(target, pastedText, formatted, focused) ==
  LET first == insertTextAtCursor(<<>>, target, IF focused THEN formatted ELSE pastedText)
  IN  IF first.throws
        THEN insertTextAtCursor(first.written, target, pastedText).written
        ELSE first.written

InitPaste ==
  /\ InitDefaultRegistry
  /\ IdleBackground
  /\ IdleKeys
  /\ IdleFormat
  /\ IdleSettings
  /\ IdlePrettier
  /\ IdleWasm
  /\ IdleWasmFormat
  /\ IdleBackendCall
  /\ IdleRegistryCall
  /\ IdleTyping
  /\ IdleLru
  /\ IdleContent
  /\ IdleDetect
  /\ IdlePaste
  /\ IdleStart

\* A paste event is dispatched: the listener runs up to its return or to
\* the await of formatCode.
Paste(target, clipboard, stored) ==
  /\ Len(pasteEvents) < MaxPastes
  /\ LET prevented == Intercepts(isProcessing, target, clipboard, stored)
     IN  /\ pasteEvents' =
              Append(pasteEvents,
                     [target |-> target, text |-> clipboard.text,
                      whileProcessing |-> isProcessing, prevented |-> prevented,
                      done |-> ~prevented, focused |-> TRUE, formatted |-> <<>>,
                      written |-> <<>>])
         /\ isProcessing' = (isProcessing \/ prevented)
         /\ pasteAwaiting' = IF prevented THEN Len(pasteEvents) + 1 ELSE pasteAwaiting
  /\ UNCHANGED <<coreVars, wasmVars, pasteRest>>

\* formatCode resolves and the listener runs to its end.
PasteResumes(formatted, focused) ==
  /\ pasteAwaiting # 0
  /\ LET e == pasteEvents[pasteAwaiting]
     IN  pasteEvents' =
           [pasteEvents EXCEPT ![pasteAwaiting] =
              [e EXCEPT !.done = TRUE, !.focused = focused, !.formatted = formatted,
                        !.written = AfterFormatCode(e.target, e.text, formatted, focused)]]
  /\ isProcessing' = FALSE
  /\ pasteAwaiting' = 0
  /\ UNCHANGED <<coreVars, wasmVars, pasteRest>>

NextPaste ==
  \/ \E target \in PasteTargets, clipboard \in Clipboards, stored \in PasteMinLengths :
       Paste(target, clipboard, stored)
  \/ \E focused \in BOOLEAN :
       \E formatted \in
            IF pasteAwaiting = 0 THEN {}
            ELSE FormatCodeResults(pasteEvents[pasteAwaiting].text) :
         PasteResumes(formatted, focused)

SpecPaste == InitPaste /\ [][NextPaste]_vars

\* C38: a paste whose default action was prevented and whose handler has
\* ended was followed by exactly one insertion, of the text formatCode
\* resolved with if the target kept the focus and of the pasted text if
\* not; isProcessing is false when no handler awaits; a paste dispatched
\* while isProcessing was true was not prevented.
C38_PreventedPasteInsertsOnce ==
  /\ \A i \in 1..Len(pasteEvents) :
       LET e == pasteEvents[i]
       IN  /\ e.whileProcessing => ~e.prevented
           /\ e.prevented /\ e.done =>
                e.written = << IF e.focused THEN e.formatted ELSE e.text >>
  /\ pasteAwaiting = 0 => ~isProcessing

(***************************************************************************)
(* Background scripts: start-up                                            *)
(*                                                                         *)
(* The script registers its onInstalled and onStartup listeners and then   *)
(* calls initializeExtension at its top level; the browser dispatches the  *)
(* two events afterwards, each at most once in a process, in either order. *)
(* A message is handled by every listener that was added to onMessage.     *)
(***************************************************************************)

\* the messages dispatched in a run
MaxDispatches == 2

InstallReasons == {"install", "update", "chrome_update"}

\* initializeExtension: the first script returns if isInitialized is set;
\* the second has no flag. setupMessageHandlers adds one listener,
\* setupContextMenu runs once.
initializeExtension(version, initialized, listeners, menus) ==
  IF version = 1 /\ initialized
    THEN [isInitialized |-> initialized, messageListeners |-> listeners,
          contextMenuSetups |-> menus]
    ELSE [isInitialized |-> (version = 1), messageListeners |-> listeners + 1,
          contextMenuSetups |-> menus + 1]

Initialize ==
  LET after == initializeExtension(bgVersion, isInitialized, messageListeners,
                                   contextMenuSetups)
  IN  /\ isInitialized' = after.isInitialized
      /\ messageListeners' = after.messageListeners
      /\ contextMenuSetups' = after.contextMenuSetups

\* The top level of the script has run to its last statement.
ScriptLoaded ==
  /\ "load" \notin fired
  /\ fired' = fired \cup {"load"}
  /\ Initialize
  /\ UNCHANGED <<defaultsStored, changelog, dispatched>>
  /\ UNCHANGED <<coreVars, wasmVars, startRest>>

\* The listener of chrome.runtime.onInstalled.
OnInstalled(reason) ==
  /\ "load" \in fired
  /\ "onInstalled" \notin fired
  /\ fired' = fired \cup {"onInstalled"}
  /\ defaultsStored' = (defaultsStored \/ reason = "install")
  /\ changelog' = "reading"
  /\ Initialize
  /\ UNCHANGED dispatched
  /\ UNCHANGED <<coreVars, wasmVars, startRest>>

\* The callback of chrome.storage.local.get in handleInstallOrUpdate.
LastSeenRead(lastError, seenCurrent) ==
  /\ changelog = "reading"
  /\ changelog' = IF lastError THEN "failed" ELSE IF seenCurrent THEN "seen" ELSE "shown"
  /\ UNCHANGED <<isInitialized, messageListeners, contextMenuSetups, fired, defaultsStored,
                 dispatched>>
  /\ UNCHANGED <<coreVars, wasmVars, startRest>>

\* The listener of chrome.runtime.onStartup.
OnStartup ==
  /\ "load" \in fired
  /\ "onStartup" \notin fired
  /\ fired' = fired \cup {"onStartup"}
  /\ Initialize
  /\ UNCHANGED <<defaultsStored, changelog, dispatched>>
  /\ UNCHANGED <<coreVars, wasmVars, startRest>>

\* The listeners of onMessage run one after the other on one message.
RECURSIVE RunListeners(_, _, _, _, _)
RunListeners(n, msg, sender, map, outs) ==
  IF n = 0
    THEN [map |-> map, outs |-> outs]
    ELSE LET out == Listener(bgVersion, msg, sender, formatCache, map, now)
         IN  RunListeners(n - 1, msg, sender, out.map, Append(outs, out))

\* The messages dispatched here: those every listener answers before it
\* returns (a format message without code from a tab, which the first
\* script counts and rejects, and a query from an extension page).
StartDeliveries ==
  { <<Message(S_format, Undefined, S_rust, NoSettings), ContentScript>>,
    <<Message("getSupportedLanguages", Undefined, Undefined, NoSettings), ExtensionPage>> }

RateCount(map, tab) ==
  IF tab # None /\ tab[1] \in DOMAIN map THEN map[tab[1]].count ELSE 0

\* A message arrives.
Dispatch(msg, sender) ==
  /\ "load" \in fired
  /\ Len(dispatched) < MaxDispatches
  /\ LET run == RunListeners(messageListeners, msg, sender, rateLimitMap, <<>>)
     IN  /\ \A i \in 1..Len(run.outs) : run.outs[i].pc = "idle" /\ ~run.outs[i].done
         /\ rateLimitMap' = run.map
         /\ dispatched' =
              Append(dispatched,
                     [msg |-> msg, sender |-> sender, listeners |-> Len(run.outs),
                      counted |-> RateCount(run.map, sender.tab)
                                    - RateCount(rateLimitMap, sender.tab)])
  /\ UNCHANGED <<isInitialized, messageListeners, contextMenuSetups, fired, defaultsStored,
                 changelog>>
  /\ UNCHANGED <<bgVersion, formatCache, now, calls, handled, lastDone, windows>>
  /\ UNCHANGED <<regVars, keyVars, fmtVars, setVars, prettierVars, wasmVars, startRest>>

NextStart ==
  \/ ScriptLoaded
  \/ \E reason \in InstallReasons : OnInstalled(reason)
  \/ \E lastError \in BOOLEAN, seenCurrent \in BOOLEAN : LastSeenRead(lastError, seenCurrent)
  \/ OnStartup
  \/ \E d \in StartDeliveries : Dispatch(d[1], d[2])

SpecStart == InitBackground /\ [][NextStart]_vars

\* C39: once the script has loaded, whichever triggers have fired, one
\* message listener is installed and setupContextMenu has run once; every
\* message dispatched was handled by one listener, and a format message of
\* a tab that the first script's rate limiter counts was counted once.
C39_InstalledOncePerProcess ==
  /\ "load" \in fired => messageListeners = 1 /\ contextMenuSetups = 1
  /\ \A i \in 1..Len(dispatched) :
       LET d == dispatched[i]
       IN  /\ d.listeners = 1
           /\ (bgVersion = 1 /\ d.msg.action = S_format /\ d.sender.tab # None) =>
                d.counted = 1

\* the languages that have an entry in DETECTION_PATTERNS
PatternLanguages == {DETECTION_PATTERNS[i].lang : i \in PatternIds}

\* C40: when the content is not JSON and the URL has no known extension,
\* then for every language with an entry in DETECTION_PATTERNS there is a
\* combination of matching patterns for which detectLanguage of
\* detection.ts returns that language.
C40_EveryPatternLanguageReturned ==
  (detectInput # None /\ ReachedPatternStage(detectInput[1])) =>
    \A lang \in PatternLanguages :
      \E matching \in MatchingsUpTo(MaxMatches) :
        DetectionDetectLanguage([detectInput[1] EXCEPT !.matching = matching]) = lang

====
